---- MODULE Spec2Model ----
(***************************************************************************)
(* The 2+4 Texas Hold'em engine of 4CardTexas/Game (TexasHoldemGame,       *)
(* Player) with the deck of Poker/Sheet and the evaluator of Poker/holdem. *)
(* Every call of the public engine surface is one step of the model.       *)
(***************************************************************************)
EXTENDS Integers, Sequences, FiniteSets, TLC

(***************************************************************************)
(* Bounds of the exploration.                                              *)
(***************************************************************************)
\* hands started per behaviour
MaxHands == 2
\* accepted RAISE calls plus advance_to_next_phase calls made on an ended
\* hand, per behaviour
MaxExtras == 1

(***************************************************************************)
(* game_types.py : GameConfig                                              *)
(***************************************************************************)
MIN_PLAYERS == 2
MAX_PLAYERS == 8
STARTING_CHIPS == 1000
SMALL_BLIND == 10
BIG_BLIND == 20
MIN_RAISE == BIG_BLIND

\* game_types.py : PlayerAction
PlayerAction == {"fold", "check", "call", "raise", "all_in"}

\* GamePhase in declaration order
PhaseOrder == <<"waiting", "preflop", "flop", "turn", "river", "showdown", "ended">>

PhaseIndex(ph) == CHOOSE i \in 1..Len(PhaseOrder) : PhaseOrder[i] = ph

Min(a, b) == IF a < b THEN a ELSE b

Max(a, b) == IF a > b THEN a ELSE b

RECURSIVE Pow16(_)
Pow16(n) == IF n = 0 THEN 1 ELSE 16 * Pow16(n - 1)

Range(s) == {s[i] : i \in DOMAIN s}

(***************************************************************************)
(* Poker/Sheet/card.py, deck.py                                            *)
(***************************************************************************)
\* Suit in declaration order
Suit == <<"hearts", "diamonds", "clubs", "spades">>

\* Rank values in declaration order
Rank == <<2, 3, 4, 5, 6, 7, 8, 9, 10, 11, 12, 13, 14>>

Card(s, r) == [suit |-> s, rank |-> r]

\* Deck._create_deck: for suit in Suit: for rank in Rank: append
create_deck ==
    [i \in 1..52 |-> Card(Suit[((i - 1) \div 13) + 1], Rank[((i - 1) % 13) + 1])]

Swap(cards, i, j) == [cards EXCEPT ![i] = cards[j], ![j] = cards[i]]

\* Deck.shuffle: Fisher-Yates, i from the last index down to the second, the
\* random index j = draws[i] in 1..i (1-based).  ShuffleFrom makes the swaps
\* for i = hi down to lo in this order, the upper half of the range first.
RECURSIVE ShuffleFrom(_, _, _, _)
ShuffleFrom(cards, draws, hi, lo) ==
    IF hi < lo THEN cards
    ELSE IF hi = lo THEN Swap(cards, hi, draws[hi])
    ELSE CHOOSE shuffled \in
            {ShuffleFrom(upper, draws, (hi + lo) \div 2, lo) :
                upper \in {ShuffleFrom(cards, draws, hi, (hi + lo) \div 2 + 1)}} : TRUE

shuffle(cards, draws) == ShuffleFrom(cards, draws, Len(cards), 2)

\* Deck.reset(shuffle=True)
reset(draws) == shuffle(create_deck, draws)

\* Deck.deal_cards: pop `count` cards from the end of the list
RECURSIVE deal_cards(_, _)
deal_cards(cards, count) ==
    IF count = 0 THEN [cards |-> <<>>, deck |-> cards]
    ELSE LET rest == deal_cards(SubSeq(cards, 1, Len(cards) - 1), count - 1)
         IN  [cards |-> <<cards[Len(cards)]>> \o rest.cards, deck |-> rest.deck]

\* faulty variant of get_cards (property C16): every call deals from a deck
\* reset and shuffled for it
get_cards_from_a_new_deck(cards, count, draws) ==
    [cards |-> deal_cards(reset(draws), count).cards, deck |-> cards]

\* DeckManager.get_cards: deal, or on ValueError reset(shuffle=True) and deal
get_cards(cards, count, draws) ==
    IF count > Len(cards) THEN deal_cards(reset(draws), count)
    ELSE deal_cards(cards, count)

(***************************************************************************)
(* Poker/holdem/texas_holdem_evaluator.py                                  *)
(***************************************************************************)
\* HandType values
HIGH_CARD == 1
PAIR == 2
TWO_PAIR == 3
THREE_KIND == 4
STRAIGHT == 5
FLUSH == 6
FULL_HOUSE == 7
FOUR_KIND == 8
STRAIGHT_FLUSH == 9
ROYAL_FLUSH == 10

HandEvaluation(t, cards, score, kickers) ==
    [hand_type |-> t, cards |-> cards, score |-> score, kickers |-> kickers]

NoEvaluation == [hand_type |-> 0]

\* sorted(cards, key=lambda x: x.rank.value, reverse=True): a stable sort,
\* cards of equal rank keep their input order
RECURSIVE InsertCard(_, _)
InsertCard(s, x) ==
    IF s = <<>> THEN <<x>>
    ELSE IF Head(s).rank >= x.rank THEN <<Head(s)>> \o InsertCard(Tail(s), x)
         ELSE <<x>> \o s

RECURSIVE SortCards(_, _)
SortCards(done, s) ==
    IF s = <<>> THEN done ELSE SortCards(InsertCard(done, Head(s)), Tail(s))

sorted_by_rank(cards) == SortCards(<<>>, cards)

\* sorted(values, reverse=True) of a list of integers
RECURSIVE InsertInt(_, _)
InsertInt(s, x) ==
    IF s = <<>> THEN <<x>>
    ELSE IF Head(s) >= x THEN <<Head(s)>> \o InsertInt(Tail(s), x)
         ELSE <<x>> \o s

RECURSIVE SortInts(_, _)
SortInts(done, s) ==
    IF s = <<>> THEN done ELSE SortInts(InsertInt(done, Head(s)), Tail(s))

sorted_desc(values) == SortInts(<<>>, values)

ranks_of(cards) == [i \in DOMAIN cards |-> cards[i].rank]

\* Counter(card.rank.value for card in cards)[r]
rank_count(cards, r) == Cardinality({i \in DOMAIN cards : cards[i].rank = r})

ranks_with_count(cards, n) == {r \in Range(ranks_of(cards)) : rank_count(cards, r) = n}

\* sorted(S, reverse=True) of a set of distinct values
RECURSIVE SetToSeqDesc(_)
SetToSeqDesc(S) ==
    IF S = {} THEN <<>>
    ELSE LET m == CHOOSE x \in S : \A y \in S : y <= x
         IN  <<m>> \o SetToSeqDesc(S \ {m})

_is_flush(cards) == Cardinality({cards[i].suit : i \in DOMAIN cards}) = 1

_is_straight_values(ranks) ==
    LET S == Range(ranks)
        lo == CHOOSE x \in S : \A y \in S : x <= y
    IN  \/ Cardinality(S) = 5 /\ S = lo..(lo + 4)
        \/ S = {2, 3, 4, 5, 14} /\ Len(ranks) = 5

_is_royal_flush(cards) ==
    _is_flush(cards) /\ sorted_desc(ranks_of(cards)) = <<14, 13, 12, 11, 10>>

MaxRank(cards) == CHOOSE r \in Range(ranks_of(cards)) : \A q \in Range(ranks_of(cards)) : q <= r

_check_straight_flush(cards) ==
    IF _is_flush(cards) /\ _is_straight_values(ranks_of(cards))
    THEN LET score == IF Range(ranks_of(cards)) = {2, 3, 4, 5, 14} THEN 500 + 5
                      ELSE 500 + MaxRank(cards)
         IN  HandEvaluation(STRAIGHT_FLUSH, cards, score, <<MaxRank(cards)>>)
    ELSE NoEvaluation

_check_four_of_a_kind(cards) ==
    IF ranks_with_count(cards, 4) # {}
    THEN LET rank == CHOOSE r \in ranks_with_count(cards, 4) : TRUE
             kicker == CHOOSE r \in Range(ranks_of(cards)) : r # rank
         IN  HandEvaluation(FOUR_KIND, cards, 400 + rank, <<rank, kicker>>)
    ELSE NoEvaluation

_check_full_house(cards) ==
    IF ranks_with_count(cards, 3) # {} /\ ranks_with_count(cards, 2) # {}
    THEN LET three_rank == CHOOSE r \in ranks_with_count(cards, 3) : TRUE
             pair_rank == CHOOSE r \in ranks_with_count(cards, 2) : TRUE
         IN  HandEvaluation(FULL_HOUSE, cards, 300 + three_rank, <<three_rank, pair_rank>>)
    ELSE NoEvaluation

_check_flush(cards) ==
    IF _is_flush(cards)
    THEN LET kickers == sorted_desc(ranks_of(cards))
         IN  HandEvaluation(FLUSH, cards, 200 + kickers[1], kickers)
    ELSE NoEvaluation

\* faulty variant of _check_straight (property C20): A-2-3-4-5 is not treated
\* apart, its high card is the ace
_check_straight_without_ace_low(cards) ==
    IF _is_straight_values(ranks_of(cards))
    THEN HandEvaluation(STRAIGHT, cards, 100 + MaxRank(cards), <<MaxRank(cards)>>)
    ELSE NoEvaluation

_check_straight(cards) ==
    IF _is_straight_values(ranks_of(cards))
    THEN LET high_rank == IF Range(ranks_of(cards)) = {2, 3, 4, 5, 14} THEN 5
                          ELSE MaxRank(cards)
         IN  HandEvaluation(STRAIGHT, cards, 100 + high_rank, <<high_rank>>)
    ELSE NoEvaluation

_check_three_of_a_kind(cards) ==
    IF ranks_with_count(cards, 3) # {}
    THEN LET rank == CHOOSE r \in ranks_with_count(cards, 3) : TRUE
             kickers == SetToSeqDesc(Range(ranks_of(cards)) \ {rank})
         IN  HandEvaluation(THREE_KIND, cards, 90 + rank, <<rank>> \o kickers)
    ELSE NoEvaluation

_check_two_pair(cards) ==
    IF Cardinality(ranks_with_count(cards, 2)) = 2
    THEN LET pairs == SetToSeqDesc(ranks_with_count(cards, 2))
             kicker == CHOOSE r \in ranks_with_count(cards, 1) : TRUE
         IN  HandEvaluation(TWO_PAIR, cards, 80 + pairs[1], pairs \o <<kicker>>)
    ELSE NoEvaluation

\* the first rank of count 2 in the order of the (rank-sorted) cards
_check_pair(cards) ==
    IF ranks_with_count(cards, 2) # {}
    THEN LET first == CHOOSE i \in DOMAIN cards :
                          /\ rank_count(cards, cards[i].rank) = 2
                          /\ \A j \in 1..(i - 1) : rank_count(cards, cards[j].rank) # 2
             rank == cards[first].rank
             kickers == SetToSeqDesc(Range(ranks_of(cards)) \ {rank})
         IN  HandEvaluation(PAIR, cards, 70 + rank, <<rank>> \o kickers)
    ELSE NoEvaluation

_check_high_card(cards) ==
    LET kickers == sorted_desc(ranks_of(cards))
    IN  HandEvaluation(HIGH_CARD, cards, 60 + kickers[1], kickers)

\* the chain of checks, strongest first, first match wins
_evaluate_5_cards(cards) ==
    LET sorted_cards == sorted_by_rank(cards)
    IN  IF _is_royal_flush(sorted_cards)
        THEN HandEvaluation(ROYAL_FLUSH, sorted_cards, 10000, <<>>)
        ELSE IF _check_straight_flush(sorted_cards) # NoEvaluation
        THEN _check_straight_flush(sorted_cards)
        ELSE IF _check_four_of_a_kind(sorted_cards) # NoEvaluation
        THEN _check_four_of_a_kind(sorted_cards)
        ELSE IF _check_full_house(sorted_cards) # NoEvaluation
        THEN _check_full_house(sorted_cards)
        ELSE IF _check_flush(sorted_cards) # NoEvaluation
        THEN _check_flush(sorted_cards)
        ELSE IF _check_straight(sorted_cards) # NoEvaluation
        THEN _check_straight(sorted_cards)
        ELSE IF _check_three_of_a_kind(sorted_cards) # NoEvaluation
        THEN _check_three_of_a_kind(sorted_cards)
        ELSE IF _check_two_pair(sorted_cards) # NoEvaluation
        THEN _check_two_pair(sorted_cards)
        ELSE IF _check_pair(sorted_cards) # NoEvaluation
        THEN _check_pair(sorted_cards)
        ELSE _check_high_card(sorted_cards)

RECURSIVE KickerSum(_)
KickerSum(kickers) ==
    IF kickers = <<>> THEN 0
    ELSE Head(kickers) * Pow16(Len(kickers) - 1) + KickerSum(Tail(kickers))

\* faulty variant of _calculate_total_score (property C17): the base score
\* of the hand type is left out of the sum
_calculate_total_score_without_base(evaluation) ==
    evaluation.score * 1000 + Min(KickerSum(evaluation.kickers), 99999)

_calculate_total_score(evaluation) ==
    LET base_score == evaluation.hand_type * 1000000
        type_score == evaluation.score * 1000
        kicker_score == Min(KickerSum(evaluation.kickers), 99999)
    IN  base_score + type_score + kicker_score

\* faulty variant of combinations5 (property C19): the first combination,
\* which leaves out the last card, is missing
combinations5_without_the_first(all_cards) ==
    [k \in 1..(Len(all_cards) - 1) |->
        SubSeq(all_cards, 1, Len(all_cards) - k - 1)
            \o SubSeq(all_cards, Len(all_cards) - k + 1, Len(all_cards))]

\* itertools.combinations(all_cards, 5) of six cards, in its order: the
\* k-th combination leaves out the card at index 7 - k
combinations5(all_cards) ==
    [k \in 1..Len(all_cards) |->
        LET out == Len(all_cards) + 1 - k
        IN  SubSeq(all_cards, 1, out - 1) \o SubSeq(all_cards, out + 1, Len(all_cards))]

\* the scan keeps the first combination of strictly greater total score
RECURSIVE BestOf(_, _, _)
RECURSIVE KeepBetter(_, _, _, _)
KeepBetter(rest, evaluation, best_evaluation, best_score) ==
    IF _calculate_total_score(evaluation) > best_score
    THEN BestOf(rest, evaluation, _calculate_total_score(evaluation))
    ELSE BestOf(rest, best_evaluation, best_score)

BestOf(combos, best_evaluation, best_score) ==
    IF combos = <<>> THEN best_evaluation
    ELSE KeepBetter(Tail(combos), _evaluate_5_cards(Head(combos)),
                    best_evaluation, best_score)

evaluate_6_cards(hole_cards, community_cards) ==
    BestOf(combinations5(hole_cards \o community_cards), NoEvaluation, -1)

(***************************************************************************)
(* 4CardTexas/Game/player.py                                               *)
(***************************************************************************)
\* Player.__init__
Player(player_id, chips) ==
    [player_id |-> player_id, chips |-> chips, hole_cards |-> <<>>,
     current_bet |-> 0, total_bet |-> 0, status |-> "active",
     position |-> "none", last_action |-> "none"]

\* faulty variant of place_bet (property C4): the bet is booked on the player
\* before the stack is compared with it
place_bet_books_before_check(p, amount) ==
    LET q == [p EXCEPT !.current_bet = @ + amount, !.total_bet = @ + amount]
    IN  IF amount > p.chips THEN [ok |-> FALSE, p |-> q]
        ELSE [ok |-> TRUE,
              p |-> IF q.chips - amount = 0
                    THEN [q EXCEPT !.chips = 0, !.status = "all_in"]
                    ELSE [q EXCEPT !.chips = @ - amount]]

\* the operations return the updated player next to their Python result
place_bet(p, amount) ==
    IF amount > p.chips THEN [ok |-> FALSE, p |-> p]
    ELSE LET q == [p EXCEPT !.chips = @ - amount,
                            !.current_bet = @ + amount,
                            !.total_bet = @ + amount]
         IN  [ok |-> TRUE,
              p |-> IF q.chips = 0 THEN [q EXCEPT !.status = "all_in"] ELSE q]

call(p, call_amount) ==
    LET actual_call == Min(call_amount, p.chips)
        bet == place_bet(p, actual_call)
    IN  IF bet.ok
        THEN [ok |-> TRUE,
              p |-> [bet.p EXCEPT !.last_action =
                        IF actual_call < call_amount THEN "all_in" ELSE "call"]]
        ELSE [ok |-> FALSE, p |-> bet.p]

\* faulty variant of raise_bet (property C28): a target at or below the bet
\* of the round is not turned down
raise_bet_to_any_target(p, raise_to) ==
    LET bet == place_bet(p, raise_to - p.current_bet)
    IN  IF bet.ok
        THEN [ok |-> TRUE,
              p |-> [bet.p EXCEPT !.last_action =
                        IF bet.p.chips = 0 THEN "all_in" ELSE "raise"]]
        ELSE [ok |-> FALSE, p |-> bet.p]

raise_bet(p, raise_to) ==
    LET raise_amount == raise_to - p.current_bet
        bet == place_bet(p, raise_amount)
    IN  IF raise_amount <= 0 THEN [ok |-> FALSE, p |-> p]
        ELSE IF bet.ok
        THEN [ok |-> TRUE,
              p |-> [bet.p EXCEPT !.last_action =
                        IF bet.p.chips = 0 THEN "all_in" ELSE "raise"]]
        ELSE [ok |-> FALSE, p |-> bet.p]

\* faulty variant of check (property C8): the check is accepted but not
\* recorded as the last action of the player
check_not_recorded(p) ==
    IF p.current_bet = 0 \/ p.status = "all_in"
    THEN [ok |-> TRUE, p |-> p]
    ELSE [ok |-> FALSE, p |-> p]

check(p) ==
    IF p.current_bet = 0 \/ p.status = "all_in"
    THEN [ok |-> TRUE, p |-> [p EXCEPT !.last_action = "check"]]
    ELSE [ok |-> FALSE, p |-> p]

fold(p) == [p EXCEPT !.status = "folded", !.last_action = "fold"]

all_in(p) ==
    LET all_in_amount == p.chips
    IN  IF all_in_amount > 0
        THEN [amount |-> all_in_amount,
              p |-> [place_bet(p, all_in_amount).p EXCEPT !.last_action = "all_in"]]
        ELSE [amount |-> all_in_amount, p |-> p]

can_act(p) == p.status = "active" /\ p.chips > 0

\* faulty variant of reset_for_new_hand (property C14): a player without
\* chips is made ACTIVE like the others
reset_for_new_hand_keeping_everyone(p) ==
    [p EXCEPT !.hole_cards = <<>>, !.current_bet = 0, !.total_bet = 0,
              !.last_action = "none", !.status = "active"]

reset_for_new_hand(p) ==
    [p EXCEPT !.hole_cards = <<>>, !.current_bet = 0, !.total_bet = 0,
              !.last_action = "none",
              !.status = IF p.chips > 0 THEN "active" ELSE "out"]

\* faulty variant of reset_for_new_betting_round (property C30): the new
\* round takes the players who folded back in
reset_for_new_betting_round_reactivating(p) ==
    [p EXCEPT !.current_bet = 0, !.last_action = "none",
              !.status = IF p.status = "folded" THEN "active" ELSE p.status]

\* faulty variant of reset_for_new_betting_round (property C13): the bet of
\* the whole hand is cleared with the bet of the round
reset_for_new_betting_round_clearing_total_bet(p) ==
    [p EXCEPT !.current_bet = 0, !.total_bet = 0, !.last_action = "none"]

reset_for_new_betting_round(p) ==
    [p EXCEPT !.current_bet = 0, !.last_action = "none"]

\* faulty variant of get_available_actions (property C29): CALL is offered
\* whatever the stack of the player
get_available_actions_call_beyond_the_stack(p, current_bet, min_raise) ==
    IF ~can_act(p) THEN {}
    ELSE LET call_amount == current_bet - p.current_bet
             min_raise_to == current_bet + min_raise
         IN  (IF p.status # "all_in" THEN {"fold"} ELSE {})
             \cup (IF call_amount = 0 THEN {"check"} ELSE {"call"})
             \cup (IF p.chips + p.current_bet >= min_raise_to THEN {"raise"} ELSE {})
             \cup (IF p.chips > 0 THEN {"all_in"} ELSE {})

\* the Python list as the set of its members
get_available_actions(p, current_bet, min_raise) ==
    IF ~can_act(p) THEN {}
    ELSE LET call_amount == current_bet - p.current_bet
             min_raise_to == current_bet + min_raise
         IN  (IF p.status # "all_in" THEN {"fold"} ELSE {})
             \cup (IF call_amount = 0 THEN {"check"}
                   ELSE IF call_amount <= p.chips THEN {"call"} ELSE {})
             \cup (IF p.chips + p.current_bet >= min_raise_to THEN {"raise"} ELSE {})
             \cup (IF p.chips > 0 THEN {"all_in"} ELSE {})

(***************************************************************************)
(* 4CardTexas/Game/texas_holdem.py : TexasHoldemGame                       *)
(* A game value g is the record of the object's fields; current_player and *)
(* dealer_position keep their 0-based Python values, players[i + 1] is     *)
(* self.players[i].                                                        *)
(***************************************************************************)
_initialize_players(num_players) ==
    [i \in 1..num_players |-> Player(i - 1, STARTING_CHIPS)]

\* TexasHoldemGame.__init__
NewGame(num_players) ==
    [players |-> _initialize_players(num_players),
     community_cards |-> <<>>,
     deck |-> <<>>,
     pot |-> 0,
     current_bet |-> 0,
     min_raise |-> MIN_RAISE,
     phase |-> "waiting",
     dealer_position |-> 0,
     current_player |-> 0,
     betting_round_complete |-> FALSE,
     hand_number |-> 0]

Indices(players) == [i \in 1..Len(players) |-> i]

\* indices of [p for p in players if p.status == ACTIVE]
ActiveIdx(players) == SelectSeq(Indices(players), LAMBDA i : players[i].status = "active")

\* first index of a player at position pos, 0 when there is none
PositionIdx(players, pos) ==
    IF \E i \in DOMAIN players : players[i].position = pos
    THEN CHOOSE i \in DOMAIN players :
            /\ players[i].position = pos
            /\ \A j \in 1..(i - 1) : players[j].position # pos
    ELSE 0

\* last index of a player at position pos, 0 when there is none
LastPositionIdx(players, pos) ==
    IF \E i \in DOMAIN players : players[i].position = pos
    THEN CHOOSE i \in DOMAIN players :
            /\ players[i].position = pos
            /\ \A j \in (i + 1)..Len(players) : players[j].position # pos
    ELSE 0

\* faulty variant of _set_positions (property C27): two players are given
\* positions as three or more are
_set_positions_without_heads_up_rule(g) ==
    LET active_players == ActiveIdx(g.players)
        num_active == Len(active_players)
        dealer_idx == g.dealer_position % num_active
        at(k) == active_players[(k % num_active) + 1]
        cleared == [i \in DOMAIN g.players |-> [g.players[i] EXCEPT !.position = "none"]]
    IN  IF num_active < 2 THEN g
        ELSE [g EXCEPT !.players =
                 [[[cleared EXCEPT ![at(dealer_idx)].position = "button"]
                            EXCEPT ![at(dealer_idx + 1)].position = "small_blind"]
                            EXCEPT ![at(dealer_idx + 2)].position = "big_blind"]]

_set_positions(g) ==
    LET active_players == ActiveIdx(g.players)
        num_active == Len(active_players)
        dealer_idx == g.dealer_position % num_active
        at(k) == active_players[(k % num_active) + 1]
        cleared == [i \in DOMAIN g.players |-> [g.players[i] EXCEPT !.position = "none"]]
    IN  IF num_active < 2 THEN g
        ELSE IF num_active = 2
        THEN [g EXCEPT !.players =
                 [cleared EXCEPT ![at(dealer_idx)].position = "small_blind",
                                 ![at(dealer_idx + 1)].position = "big_blind"]]
        ELSE [g EXCEPT !.players =
                 [[[cleared EXCEPT ![at(dealer_idx)].position = "button"]
                            EXCEPT ![at(dealer_idx + 1)].position = "small_blind"]
                            EXCEPT ![at(dealer_idx + 2)].position = "big_blind"]]

\* one pass of `for player in self.players` of _deal_hole_cards, from index i
RECURSIVE DealPass(_, _, _, _)
DealPass(players, deck, i, draws) ==
    IF i > Len(players) THEN [players |-> players, deck |-> deck]
    ELSE IF players[i].status = "active"
    THEN LET got == get_cards(deck, 1, draws)
         IN  DealPass([players EXCEPT ![i].hole_cards = Append(@, got.cards[1])],
                      got.deck, i + 1, draws)
    ELSE DealPass(players, deck, i + 1, draws)

\* draws: the random indices of the shuffle of deck_manager.reset_deck()
_deal_hole_cards(g, draws) ==
    LET first == DealPass(g.players, reset(draws), 1, draws)
        second == DealPass(first.players, first.deck, 1, draws)
    IN  [g EXCEPT !.players = second.players, !.deck = second.deck]

_post_blinds(g) ==
    LET sb == LastPositionIdx(g.players, "small_blind")
        sb_amount == Min(SMALL_BLIND, g.players[sb].chips)
        g1 == IF sb # 0
              THEN [g EXCEPT !.players[sb] = place_bet(g.players[sb], sb_amount).p,
                             !.pot = @ + sb_amount]
              ELSE g
        bb == LastPositionIdx(g1.players, "big_blind")
        bb_amount == Min(BIG_BLIND, g1.players[bb].chips)
    IN  IF bb # 0
        THEN [g1 EXCEPT !.players[bb] = place_bet(g1.players[bb], bb_amount).p,
                        !.pot = @ + bb_amount,
                        !.current_bet = bb_amount]
        ELSE g1

\* first index start, start+1, ... (cyclically, `tries` of them) that can act, 0 if none
RECURSIVE FirstCanAct(_, _, _)
FirstCanAct(players, start, tries) ==
    IF tries = 0 THEN 0
    ELSE IF can_act(players[start]) THEN start
    ELSE FirstCanAct(players, (start % Len(players)) + 1, tries - 1)

\* faulty variant of _find_first_to_act (property C26): the positions are not
\* looked at, the first player of the roster who can act is first to act
_find_first_to_act_from_the_first_seat(g) ==
    IF \A i \in DOMAIN g.players : ~can_act(g.players[i])
    THEN [g EXCEPT !.betting_round_complete = TRUE]
    ELSE [g EXCEPT !.current_player = FirstCanAct(g.players, 1, Len(g.players)) - 1]

_find_first_to_act(g) ==
    LET n == Len(g.players)
        big_blind_idx == PositionIdx(g.players, "big_blind")
        small_blind_idx == PositionIdx(g.players, "small_blind")
        by_position ==
            IF g.phase = "preflop"
            THEN IF big_blind_idx # 0
                 THEN FirstCanAct(g.players, (big_blind_idx % n) + 1, n)
                 ELSE 0
            ELSE IF small_blind_idx # 0
                 THEN FirstCanAct(g.players, small_blind_idx, n)
                 ELSE 0
        fallback == FirstCanAct(g.players, 1, n)
    IN  IF \A i \in DOMAIN g.players : ~can_act(g.players[i])
        THEN [g EXCEPT !.betting_round_complete = TRUE]
        ELSE IF by_position # 0
        THEN [g EXCEPT !.current_player = by_position - 1]
        ELSE [g EXCEPT !.current_player = fallback - 1]

_start_betting_round(g) ==
    LET g1 == [g EXCEPT !.players =
                  [i \in DOMAIN g.players |-> reset_for_new_betting_round(g.players[i])]]
        g2 == IF g1.phase # "preflop" THEN [g1 EXCEPT !.current_bet = 0] ELSE g1
    IN  [_find_first_to_act(g2) EXCEPT !.betting_round_complete = FALSE]

\* the players that are neither FOLDED nor OUT, as roster indices
ShowdownPlayers(g) ==
    SelectSeq(Indices(g.players),
              LAMBDA i : g.players[i].status # "folded" /\ g.players[i].status # "out")

\* player_hands: (player, hand_eval) for the players whose hand can be
\* evaluated (4 community cards, 2 hole cards)
EvaluatedHands(g, seats) ==
    [k \in DOMAIN seats |->
        [seat |-> seats[k],
         hand_eval |-> evaluate_6_cards(g.players[seats[k]].hole_cards, g.community_cards)]]

player_hands(g, active_players) ==
    EvaluatedHands(g, SelectSeq(active_players,
                                LAMBDA i : /\ Len(g.community_cards) >= 4
                                           /\ Len(g.players[i].hole_cards) = 2))

\* the sort key of an entry of player_hands
ScoreOf(h) == _calculate_total_score(h.hand_eval)

\* player_hands.sort(key=total score, reverse=True): stable
RECURSIVE InsertHand(_, _)
InsertHand(s, h) ==
    IF s = <<>> THEN <<h>>
    ELSE IF ScoreOf(Head(s)) >= ScoreOf(h)
         THEN <<Head(s)>> \o InsertHand(Tail(s), h)
         ELSE <<h>> \o s

RECURSIVE SortHands(_, _)
SortHands(done, s) ==
    IF s = <<>> THEN done ELSE SortHands(InsertHand(done, Head(s)), Tail(s))

\* the entries after the first one, up to the first whose score differs from
\* the best score
RECURSIVE TiedPrefix(_, _)
TiedPrefix(s, best_score) ==
    IF s = <<>> \/ ScoreOf(Head(s)) # best_score THEN <<>>
    ELSE <<Head(s)>> \o TiedPrefix(Tail(s), best_score)

\* faulty variant of winners (property C11): the hands tied with the best
\* hand are not looked for, the head of the sorted list wins alone
winners_ignoring_ties(sorted_hands) ==
    <<sorted_hands[1]>>

\* winners: the head of the sorted list and the entries tied with it
winners(sorted_hands) ==
    <<sorted_hands[1]>> \o TiedPrefix(Tail(sorted_hands), ScoreOf(sorted_hands[1]))

\* for i, winner in enumerate(winners): chips += pot_per_winner (+1 if i < remainder)
RECURSIVE PayWinners(_, _, _, _, _)
PayWinners(players, won, k, pot_per_winner, remainder) ==
    IF k > Len(won) THEN players
    ELSE PayWinners([players EXCEPT ![won[k].seat].chips =
                        @ + pot_per_winner + (IF k - 1 < remainder THEN 1 ELSE 0)],
                    won, k + 1, pot_per_winner, remainder)

\* faulty variant of SplitPot (property C22): side pots, a winner receives
\* from every player at most the chips the winner has bet in the hand
SplitPot_with_side_pots(g, won) ==
    [g EXCEPT !.players =
        PayWinners(g.players, won, 1,
                   Min(g.pot \div Len(won), g.players[won[1].seat].total_bet * Len(g.players)), 0)]

\* faulty variant of SplitPot (property C12): the chips of the remainder go
\* to the last winners of the list
SplitPot_remainder_from_the_end(g, won) ==
    [g EXCEPT !.players = PayWinners(g.players, [k \in DOMAIN won |-> won[Len(won) + 1 - k]], 1,
                                     g.pot \div Len(won), g.pot % Len(won))]

\* the pot split between the winners, the remainder to the first of them
SplitPot(g, won) ==
    [g EXCEPT !.players = PayWinners(g.players, won, 1,
                                     g.pot \div Len(won), g.pot % Len(won))]

\* the part of _showdown after the case of a single player: evaluate, pay
\* the winners if any hand was evaluated, empty the pot, end the hand
EvaluateAndPay(g, hands) ==
    [(IF hands # <<>> THEN SplitPot(g, winners(SortHands(<<>>, hands))) ELSE g)
        EXCEPT !.pot = 0, !.phase = "ended"]

\* the case of a single player of _showdown
PaySinglePlayer(g, winner) ==
    [g EXCEPT !.players[winner].chips = @ + g.pot, !.pot = 0, !.phase = "ended"]

\* faulty variant of _showdown (property C10): the case of a single player
\* left is not treated apart, every settlement goes through the evaluation
_showdown_always_evaluating(g) ==
    EvaluateAndPay(g, player_hands(g, ShowdownPlayers(g)))

_showdown(g) ==
    IF Len(ShowdownPlayers(g)) = 1
    THEN PaySinglePlayer(g, ShowdownPlayers(g)[1])
    ELSE EvaluateAndPay(g, player_hands(g, ShowdownPlayers(g)))

\* the seat reached by stepping from `cur`: the first one after `start` that
\* can act, or `start` itself after a full circle
RECURSIVE NextSeat(_, _, _)
NextSeat(players, start, cur) ==
    LET nxt == (cur + 1) % Len(players)
    IN  IF nxt = start \/ can_act(players[nxt + 1]) THEN nxt
        ELSE NextSeat(players, start, nxt)

\* faulty variant of _move_to_next_player (property C25): the turn goes to
\* the next seat, whether or not its player can act
_move_to_next_player_to_the_next_seat(g) ==
    [g EXCEPT !.current_player = (g.current_player + 1) % Len(g.players)]

_move_to_next_player(g) ==
    [g EXCEPT !.current_player = NextSeat(g.players, g.current_player, g.current_player)]

\* faulty variant of _check_betting_round_complete (property C7): matched
\* bets complete the round, whether or not the players have acted
_check_betting_round_complete_on_bets_alone(g) ==
    LET active_players == ActiveIdx(g.players)
        all_in_players == SelectSeq(Indices(g.players), LAMBDA i : g.players[i].status = "all_in")
        non_folded_players == active_players \o all_in_players
        can_act_players == SelectSeq(active_players, LAMBDA i : can_act(g.players[i]))
        non_all_in_active_players ==
            SelectSeq(active_players, LAMBDA i : g.players[i].status # "all_in")
    IN  IF Len(non_folded_players) <= 1
        THEN _showdown([g EXCEPT !.betting_round_complete = TRUE, !.phase = "showdown"])
        ELSE IF can_act_players = <<>>
        THEN [g EXCEPT !.betting_round_complete = TRUE]
        ELSE IF Len(non_all_in_active_players) <= 1
        THEN [g EXCEPT !.betting_round_complete = TRUE]
        ELSE IF \E k \in DOMAIN non_all_in_active_players :
                    g.players[non_all_in_active_players[k]].current_bet # g.current_bet
        THEN g
        ELSE [g EXCEPT !.betting_round_complete = TRUE]

_check_betting_round_complete(g) ==
    LET active_players == ActiveIdx(g.players)
        all_in_players == SelectSeq(Indices(g.players), LAMBDA i : g.players[i].status = "all_in")
        non_folded_players == active_players \o all_in_players
        can_act_players == SelectSeq(active_players, LAMBDA i : can_act(g.players[i]))
        non_all_in_active_players ==
            SelectSeq(active_players, LAMBDA i : g.players[i].status # "all_in")
    IN  IF Len(non_folded_players) <= 1
        THEN _showdown([g EXCEPT !.betting_round_complete = TRUE, !.phase = "showdown"])
        ELSE IF can_act_players = <<>>
        THEN [g EXCEPT !.betting_round_complete = TRUE]
        ELSE IF Len(non_all_in_active_players) <= 1
        THEN [g EXCEPT !.betting_round_complete = TRUE]
        ELSE IF \E k \in DOMAIN non_all_in_active_players :
                    LET p == g.players[non_all_in_active_players[k]]
                    IN  p.current_bet # g.current_bet \/ p.last_action = "none"
        THEN g
        ELSE [g EXCEPT !.betting_round_complete = TRUE]

\* the branch of process_player_action for each action: the Python `success`
\* and the game after the branch
FoldBranch(g, cp) ==
    [ok |-> TRUE, g |-> [g EXCEPT !.players[cp] = fold(g.players[cp])]]

CheckBranch(g, cp) ==
    LET player == g.players[cp]
    IN  IF player.current_bet = g.current_bet
        THEN [ok |-> check(player).ok, g |-> [g EXCEPT !.players[cp] = check(player).p]]
        ELSE [ok |-> FALSE, g |-> g]

CallBranch(g, cp) ==
    LET player == g.players[cp]
        call_amount == g.current_bet - player.current_bet
        r == call(player, call_amount)
    IN  IF call_amount > 0
        THEN IF r.ok
             THEN [ok |-> TRUE,
                   g |-> [g EXCEPT !.players[cp] = r.p,
                                   !.pot = @ + Min(call_amount, r.p.chips + call_amount)]]
             ELSE [ok |-> FALSE, g |-> [g EXCEPT !.players[cp] = r.p]]
        ELSE [ok |-> FALSE, g |-> g]

\* faulty variant of the RAISE branch (property C34): a raise to exactly the
\* table bet plus the minimum raise is turned down
RaiseBranch_beyond_the_minimum_raise(g, cp, amount) ==
    LET player == g.players[cp]
        old_bet == player.current_bet
        r == raise_bet(player, amount)
        bet_increase == r.p.current_bet - old_bet
    IN  IF amount > g.current_bet + g.min_raise
        THEN IF r.ok
             THEN [ok |-> TRUE,
                   g |-> [g EXCEPT !.players[cp] = r.p,
                                   !.pot = @ + bet_increase,
                                   !.current_bet = amount,
                                   !.min_raise = Max(@, amount - (amount - bet_increase))]]
             ELSE [ok |-> FALSE, g |-> [g EXCEPT !.players[cp] = r.p]]
        ELSE [ok |-> FALSE, g |-> g]

RaiseBranch(g, cp, amount) ==
    LET player == g.players[cp]
        old_bet == player.current_bet
        r == raise_bet(player, amount)
        bet_increase == r.p.current_bet - old_bet
    IN  IF amount > g.current_bet
        THEN IF r.ok
             THEN [ok |-> TRUE,
                   g |-> [g EXCEPT !.players[cp] = r.p,
                                   !.pot = @ + bet_increase,
                                   !.current_bet = amount,
                                   \* self.current_bet is already `amount` here
                                   !.min_raise = Max(@, amount - (amount - bet_increase))]]
             ELSE [ok |-> FALSE, g |-> [g EXCEPT !.players[cp] = r.p]]
        ELSE [ok |-> FALSE, g |-> g]

\* faulty variant of the ALL_IN branch (property C39): the table bet is not
\* lifted to the bet of a player who goes all-in above it
AllInBranch_keeping_the_table_bet(g, cp) ==
    LET player == g.players[cp]
        r == all_in(player)
    IN  IF r.amount > 0
        THEN [ok |-> TRUE,
              g |-> [g EXCEPT !.players[cp] = r.p,
                              !.pot = @ + r.amount]]
        ELSE [ok |-> FALSE, g |-> [g EXCEPT !.players[cp] = r.p]]

AllInBranch(g, cp) ==
    LET player == g.players[cp]
        r == all_in(player)
    IN  IF r.amount > 0
        THEN [ok |-> TRUE,
              g |-> [g EXCEPT !.players[cp] = r.p,
                              !.pot = @ + r.amount,
                              !.current_bet = IF r.p.current_bet > g.current_bet
                                              THEN r.p.current_bet ELSE @]]
        ELSE [ok |-> FALSE, g |-> [g EXCEPT !.players[cp] = r.p]]

\* ok is the returned bool; raised names the exception that leaves the call
\* instead of a result: self.players[self.current_player] raises IndexError
\* when current_player is not an index of the (shrunken) roster
process_player_action(g, action, amount) ==
    LET cp == g.current_player + 1
        branch == CASE action = "fold" -> FoldBranch(g, cp)
                    [] action = "check" -> CheckBranch(g, cp)
                    [] action = "call" -> CallBranch(g, cp)
                    [] action = "raise" -> RaiseBranch(g, cp, amount)
                    [] action = "all_in" -> AllInBranch(g, cp)
    IN  IF g.betting_round_complete THEN [ok |-> FALSE, raised |-> "none", g |-> g]
        ELSE IF cp > Len(g.players) THEN [ok |-> FALSE, raised |-> "IndexError", g |-> g]
        ELSE IF ~can_act(g.players[cp]) THEN [ok |-> FALSE, raised |-> "none", g |-> g]
        ELSE IF branch.ok
        THEN [ok |-> TRUE, raised |-> "none",
              g |-> _check_betting_round_complete(_move_to_next_player(branch.g))]
        ELSE [ok |-> FALSE, raised |-> "none", g |-> branch.g]

\* burn one card, then move `count` cards to the community cards
DealBoard(g, count, draws) ==
    LET burn == get_cards(g.deck, 1, draws)
        got == get_cards(burn.deck, count, draws)
    IN  [g EXCEPT !.deck = got.deck, !.community_cards = @ \o got.cards]

\* faulty variant of _deal_flop (property C24): the flop of three cards
_deal_flop_of_three_cards(g, draws) == DealBoard(g, 3, draws)

_deal_flop(g, draws) == DealBoard(g, 2, draws)

_deal_turn(g, draws) == DealBoard(g, 1, draws)

_deal_river(g, draws) == DealBoard(g, 1, draws)

\* faulty variant of advance_to_next_phase (property C9): the branch of the
\* turn sets the phase of the branch above it
advance_to_next_phase_back_to_flop(g, draws) ==
    CASE g.phase = "preflop" ->
            _start_betting_round([_deal_flop(g, draws) EXCEPT !.phase = "flop"])
      [] g.phase = "flop" ->
            _start_betting_round([_deal_turn(g, draws) EXCEPT !.phase = "turn"])
      [] g.phase = "turn" ->
            _start_betting_round([_deal_river(g, draws) EXCEPT !.phase = "flop"])
      [] g.phase = "river" ->
            _showdown([g EXCEPT !.phase = "showdown"])
      [] OTHER -> _start_betting_round(g)

advance_to_next_phase(g, draws) ==
    CASE g.phase = "preflop" ->
            _start_betting_round([_deal_flop(g, draws) EXCEPT !.phase = "flop"])
      [] g.phase = "flop" ->
            _start_betting_round([_deal_turn(g, draws) EXCEPT !.phase = "turn"])
      [] g.phase = "turn" ->
            _start_betting_round([_deal_river(g, draws) EXCEPT !.phase = "river"])
      [] g.phase = "river" ->
            _showdown([g EXCEPT !.phase = "showdown"])
      [] OTHER -> _start_betting_round(g)

start_new_hand(g, draws) ==
    LET g1 == [g EXCEPT !.hand_number = @ + 1,
                        !.community_cards = <<>>,
                        !.pot = 0,
                        !.current_bet = 0,
                        !.min_raise = MIN_RAISE,
                        !.betting_round_complete = FALSE]
        reset_players == [i \in DOMAIN g1.players |-> reset_for_new_hand(g1.players[i])]
        g2 == [g1 EXCEPT !.players = SelectSeq(reset_players, LAMBDA p : p.status # "out")]
    IN  IF Len(g2.players) < 2
        THEN [g2 EXCEPT !.phase = "ended"]
        ELSE _start_betting_round(
                 [_post_blinds(_deal_hole_cards(_set_positions(g2), draws))
                      EXCEPT !.phase = "preflop"])

\* the players marked OUT by eliminate_players (the returned list)
eliminated(g) ==
    SelectSeq(g.players, LAMBDA p : p.chips <= 0 /\ p.status # "out")

eliminate_players(g) ==
    [g EXCEPT !.players =
        [i \in DOMAIN g.players |->
            IF g.players[i].chips <= 0 /\ g.players[i].status # "out"
            THEN [g.players[i] EXCEPT !.status = "out"]
            ELSE g.players[i]]]

is_game_over(g) ==
    Len(SelectSeq(g.players, LAMBDA p : p.status # "out")) <= 1

is_hand_complete(g) ==
    LET active_players == SelectSeq(g.players, LAMBDA p : p.status \notin {"folded", "out"})
    IN  \/ Len(active_players) <= 1
        \/ g.phase = "showdown"
        \/ g.phase = "river" /\ g.betting_round_complete

(***************************************************************************)
(* The inputs of the exploration.                                          *)
(***************************************************************************)
\* Outcomes of the shuffle, as the sequence of random indices it draws:
\* NoSwapDraws leaves the deck in creation order (spades dealt ace first);
\* TieDraws puts As Ah Kh Ks 2h 2c 7d 3h 9c 4h Jd on top, which heads-up
\* gives both players A K J 9 7 of mixed suits.
NoSwapDraws == [i \in 1..52 |-> i]

TieDraws ==
    [i \in 1..52 |->
        IF i < 42 THEN i ELSE <<23, 3, 34, 2, 19, 27, 1, 13, 12, 13, 52>>[i - 41]]

Shuffles == {NoSwapDraws, TieDraws}

\* Table sizes of the games constructed: heads-up and three-handed under
\* Spec, the default four-handed table under SpecFour
TableSizes == {2, 3}

DEFAULT_PLAYERS == 4

\* Table sizes at which more than one hand is played
MultiHandTables == {2}

\* Amounts offered with RAISE: the big blind (not above an unraised pre-flop
\* table bet, a minimum raise after the flop), an odd amount between one and
\* two big blinds (less than a minimum raise before the flop; it makes pots
\* that two winners cannot split evenly) and more than any stack of the
\* first hand.
RaiseAmounts ==
    {BIG_BLIND, BIG_BLIND + SMALL_BLIND + 1, STARTING_CHIPS + 1}

\* the shuffle inside get_cards happens only when the deck runs short of the
\* (at most three) cards one advance_to_next_phase call takes
ReshuffleDraws(cards) == IF Len(cards) < 3 THEN Shuffles ELSE {NoSwapDraws}

AmountsFor(action) == IF action = "raise" THEN RaiseAmounts ELSE {0}

(***************************************************************************)
(* The state: the fields of the TexasHoldemGame object and the deck of     *)
(* deck_manager.  extras counts the accepted RAISE calls and the           *)
(* advance_to_next_phase calls made on an ended hand; it only bounds the   *)
(* exploration.                                                            *)
(***************************************************************************)
VARIABLES players, community_cards, deck, pot, current_bet, min_raise, phase,
          dealer_position, current_player, betting_round_complete, hand_number,
          num_players, extras

vars == <<players, community_cards, deck, pot, current_bet, min_raise, phase,
          dealer_position, current_player, betting_round_complete, hand_number,
          num_players, extras>>

game == [players |-> players,
         community_cards |-> community_cards,
         deck |-> deck,
         pot |-> pot,
         current_bet |-> current_bet,
         min_raise |-> min_raise,
         phase |-> phase,
         dealer_position |-> dealer_position,
         current_player |-> current_player,
         betting_round_complete |-> betting_round_complete,
         hand_number |-> hand_number]

Becomes(g) ==
    /\ players' = g.players
    /\ community_cards' = g.community_cards
    /\ deck' = g.deck
    /\ pot' = g.pot
    /\ current_bet' = g.current_bet
    /\ min_raise' = g.min_raise
    /\ phase' = g.phase
    /\ dealer_position' = g.dealer_position
    /\ current_player' = g.current_player
    /\ betting_round_complete' = g.betting_round_complete
    /\ hand_number' = g.hand_number

\* hands explored at a table of n seats
HandLimit(n) == IF n \in MultiHandTables THEN MaxHands ELSE 1

\* TexasHoldemGame(num_players) for a size in `sizes`; the deck of the
\* module-level deck_manager is a shuffled full deck
InitFor(sizes) ==
    /\ num_players \in sizes
    /\ \E draws \in Shuffles :
          /\ players = NewGame(num_players).players
          /\ deck = reset(draws)
    /\ community_cards = <<>>
    /\ pot = 0
    /\ current_bet = 0
    /\ min_raise = MIN_RAISE
    /\ phase = "waiting"
    /\ dealer_position = 0
    /\ current_player = 0
    /\ betting_round_complete = FALSE
    /\ hand_number = 0
    /\ extras = 0

Init == InitFor(TableSizes)

InitFour == InitFor({DEFAULT_PLAYERS})

\* game.start_new_hand(), called as the main loop calls it: before the first
\* hand and after a hand has ended
StartNewHand ==
    /\ hand_number < HandLimit(num_players)
    /\ phase \in {"waiting", "ended"}
    /\ \E draws \in Shuffles : Becomes(start_new_hand(game, draws))
    /\ UNCHANGED <<num_players, extras>>

\* the outcome r of the call becomes the state; an accepted RAISE uses up
\* the budget of the exploration
Outcome(action, r) ==
    /\ (action = "raise" /\ r.ok) => extras < MaxExtras
    /\ Becomes(r.g)
    /\ extras' = IF action = "raise" /\ r.ok THEN extras + 1 ELSE extras

\* game.process_player_action(action, amount) in a started hand, with any
\* action and amount; a rejected call leaves the state as it is
ProcessPlayerAction ==
    /\ phase # "waiting"
    /\ \E action \in PlayerAction : \E amount \in AmountsFor(action) :
          Outcome(action, process_player_action(game, action, amount))
    /\ UNCHANGED num_players

\* game.advance_to_next_phase(), called once the betting round is complete
AdvanceToNextPhase ==
    /\ betting_round_complete
    /\ phase \in {"showdown", "ended"} => extras < MaxExtras
    /\ \E draws \in ReshuffleDraws(deck) : Becomes(advance_to_next_phase(game, draws))
    /\ extras' = IF phase \in {"showdown", "ended"} THEN extras + 1 ELSE extras
    /\ UNCHANGED num_players

\* game.eliminate_players(), called as the main loop calls it: after a hand
\* has ended
EliminatePlayers ==
    /\ phase = "ended"
    /\ Becomes(eliminate_players(game))
    /\ UNCHANGED <<num_players, extras>>

Next ==
    \/ StartNewHand
    \/ ProcessPlayerAction
    \/ AdvanceToNextPhase
    \/ EliminatePlayers

Spec == Init /\ [][Next]_vars

SpecFour == InitFour /\ [][Next]_vars

(***************************************************************************)
(* Games of one hand, heads-up, on chosen deals: the hands that reach the  *)
(* evaluator cover every hand type.                                        *)
(***************************************************************************)
\* the draws that leave the deck in creation order but for its eleven top
\* cards (the cards a heads-up hand takes), drawn as `top` says
DrawsDealing(top) == [i \in 1..52 |-> IF i < 42 THEN i ELSE top[i - 41]]

\* A 9 against 6 K on the board 2 3 4 5: the ace-low straight against the straight to the six
WheelDraws ==
    DrawsDealing(<<4, 4, 3, 2, 15, 27, 1, 25, 34, 5, 26>>)

\* J 7 against J 6 on the board A K 9 4 of mixed suits: high cards that differ in the fifth rank
HighCardDraws ==
    DrawsDealing(<<42, 3, 34, 2, 25, 13, 1, 18, 19, 36, 10>>)

\* Jh against 3h on the board Ah Kh 9h 4h: flushes that differ in the third rank
FlushDraws ==
    DrawsDealing(<<3, 5, 8, 4, 12, 13, 1, 2, 27, 24, 10>>)

\* Ah against 9h on the board 10h Jh Qh Kh: royal flush against straight flush
RoyalDraws ==
    DrawsDealing(<<12, 3, 11, 2, 10, 9, 1, 14, 27, 8, 13>>)

\* 8 2 against K 3 on the board 8 8 8 K: four of a kind against full house
QuadsDraws ==
    DrawsDealing(<<25, 3, 33, 2, 20, 7, 1, 28, 27, 12, 46>>)

\* 7 5 against Q 2 on the board 7 7 Q 2: three of a kind against two pair
TripsDraws ==
    DrawsDealing(<<40, 4, 37, 3, 19, 6, 2, 1, 17, 24, 32>>)

\* K 4 against A 5 on the board 3 8 10 K: a pair against a high card
PairDraws ==
    DrawsDealing(<<26, 4, 35, 3, 20, 2, 1, 30, 16, 26, 38>>)

\* K Q against K J on the board K 8 5 2: pairs that differ in the first kicker
PairKickerDraws ==
    DrawsDealing(<<40, 3, 30, 2, 20, 12, 1, 23, 11, 38, 25>>)

\* 2c 4d against 3h 9d on the board 6h 8s 10c Kd: six cards of one player
\* without a pair, a straight or a flush
NoPairDraws ==
    DrawsDealing(<<25, 4, 35, 3, 46, 5, 1, 21, 16, 2, 27>>)

HandDeals ==
    {WheelDraws, HighCardDraws, FlushDraws, RoyalDraws,
     QuadsDraws, TripsDraws, PairDraws, PairKickerDraws, NoPairDraws}

\* game.start_new_hand() of the first hand, the shuffle drawn from HandDeals
DealHand ==
    /\ phase = "waiting"
    /\ \E draws \in HandDeals : Becomes(start_new_hand(game, draws))
    /\ UNCHANGED <<num_players, extras>>

NextDeals ==
    \/ DealHand
    \/ ProcessPlayerAction
    \/ AdvanceToNextPhase
    \/ EliminatePlayers

SpecDeals == InitFor({MIN_PLAYERS}) /\ [][NextDeals]_vars

(***************************************************************************)
(* Properties.  Attempt(action, amount) is the outcome the engine would    *)
(* give, in the current state, to process_player_action(action, amount).   *)
(***************************************************************************)
Attempt(action, amount) == process_player_action(game, action, amount)

Seats == DOMAIN players

\* the seat whose turn it is
Turn == current_player + 1

RECURSIVE SumSeq(_)
SumSeq(s) == IF s = <<>> THEN 0 ELSE Head(s) + SumSeq(Tail(s))

TotalChips(g) == SumSeq([i \in DOMAIN g.players |-> g.players[i].chips]) + g.pot

BettingPhases == {"preflop", "flop", "turn", "river"}

\* seats that have neither folded nor been eliminated
NonFolded(g) == {i \in DOMAIN g.players : g.players[i].status \notin {"folded", "out"}}

ActiveSeats(g) == {i \in DOMAIN g.players : g.players[i].status = "active"}

\* C1: the chips of all players plus the pot equal the number of players
\* the game was created with times the starting stack, after every call of
\* the engine and over any number of hands.
C1_ChipConservation == TotalChips(game) = num_players * STARTING_CHIPS

\* C2: an action that is not among the legal actions of the player whose
\* turn it is, is rejected, whatever the action and the state.
C2_UnavailableActionRejected ==
    \A action \in PlayerAction : \A amount \in AmountsFor(action) :
        (/\ Turn \in Seats
         /\ action \notin get_available_actions(players[Turn], current_bet, min_raise))
        => ~Attempt(action, amount).ok

\* C3: a RAISE is accepted only if its amount is above the table bet, at
\* least the table bet plus the minimum raise, and at most the chips plus
\* the round bet of the player.
C3_RaiseNeedsLegalAmount ==
    \A amount \in RaiseAmounts :
        Attempt("raise", amount).ok
        => /\ amount > current_bet
           /\ amount >= current_bet + min_raise
           /\ amount <= players[Turn].chips + players[Turn].current_bet

\* C4: a call of process_player_action that returns False leaves the whole
\* game as it was: pot, table bet, minimum raise, phase, turn, the
\* round-complete flag and every field of every player.
C4_RejectionChangesNothing ==
    \A action \in PlayerAction : \A amount \in AmountsFor(action) :
        \A r \in {Attempt(action, amount)} : ~r.ok => r.g = game

\* C4 witness: a player who can act, in an open round, is refused a RAISE
\* above the table bet (the amount exceeds the stack).
C4_Witness ==
    /\ phase \in BettingPhases
    /\ ~betting_round_complete
    /\ can_act(players[Turn])
    /\ STARTING_CHIPS + 1 > current_bet
    /\ ~Attempt("raise", STARTING_CHIPS + 1).ok

\* C5: after an accepted RAISE to `amount` over a table bet T, the table
\* bet is `amount` and the minimum raise is the increment amount - T.
C5_RaiseSetsMinRaiseToIncrement ==
    \A amount \in RaiseAmounts :
        \A r \in {Attempt("raise", amount)} :
            r.ok => /\ r.g.current_bet = amount
                    /\ r.g.min_raise = amount - current_bet

\* C6: an accepted CALL or ALL_IN (that does not settle the hand) adds to the
\* pot exactly the chips that left the stack of the acting player.
C6_PotGrowsByChipsPaid ==
    \A action \in {"call", "all_in"} :
        \A r \in {Attempt(action, 0)} :
            (r.ok /\ Cardinality(NonFolded(r.g)) >= 2)
            => r.g.pot - pot = players[Turn].chips - r.g.players[Turn].chips

\* the completion rule: (a) at most one seat not folded, or (b) at most one
\* ACTIVE seat, or (c) every ACTIVE seat has matched the table bet and has
\* acted in this round
CompletionRule(g) ==
    \/ Cardinality(NonFolded(g)) <= 1
    \/ Cardinality(ActiveSeats(g)) <= 1
    \/ \A i \in ActiveSeats(g) :
          /\ g.players[i].current_bet = g.current_bet
          /\ g.players[i].last_action # "none"

\* C7: right after every accepted action the round-complete flag is set
\* exactly when the completion rule holds.
C7_CompleteIffRule ==
    \A action \in PlayerAction : \A amount \in AmountsFor(action) :
        \A r \in {Attempt(action, amount)} :
            r.ok => (r.g.betting_round_complete <=> CompletionRule(r.g))

\* C7 witness: a round that two or more ACTIVE players have just completed
\* by matching a table bet above zero.
C7_Witness ==
    /\ phase \in BettingPhases
    /\ betting_round_complete
    /\ Cardinality(ActiveSeats(game)) >= 2
    /\ current_bet > 0
    /\ \A i \in ActiveSeats(game) :
          players[i].current_bet = current_bet /\ players[i].last_action = "call"

\* seats that have checked in this round
Checked(g) == {i \in DOMAIN g.players : g.players[i].last_action = "check"}

\* a round after the flop at a table of four ACTIVE players in which nobody
\* has bet and nothing but checks has happened
FourHandedCheckingRound ==
    /\ phase \in {"flop", "turn", "river"}
    /\ Len(players) = 4
    /\ \A i \in Seats :
          /\ players[i].status = "active"
          /\ players[i].current_bet = 0
          /\ players[i].last_action \in {"none", "check"}
    /\ current_bet = 0

\* C8: in such a round every CHECK in turn is accepted and leaves the pot
\* and the table bet (0) as they are, and the round is complete exactly
\* when all four players have checked: not after one, two or three checks.
C8_FourChecksCompleteRound ==
    FourHandedCheckingRound
    => /\ betting_round_complete <=> Cardinality(Checked(game)) = 4
       /\ ~betting_round_complete
          => \A r \in {Attempt("check", 0)} :
                 /\ r.ok
                 /\ r.g.pot = pot
                 /\ r.g.current_bet = 0
                 /\ Cardinality(Checked(r.g)) = Cardinality(Checked(game)) + 1

\* C8 witness: the round after the fourth check.
C8_Witness ==
    /\ FourHandedCheckingRound
    /\ Cardinality(Checked(game)) = 4
    /\ betting_round_complete

\* C9: between two start_new_hand calls no call moves the phase backwards
\* in WAITING, PREFLOP, FLOP, TURN, RIVER, SHOWDOWN, ENDED; in particular
\* ENDED stays ENDED.
C9_PhaseOnlyMovesForward ==
    [][hand_number' = hand_number => PhaseIndex(phase') >= PhaseIndex(phase)]_vars

\* C9 witness: a hand that went through every betting phase to its end.
C9_Witness ==
    /\ phase = "ended"
    /\ Len(community_cards) = 4
    /\ Cardinality(NonFolded(game)) >= 2

\* C10: when a FOLD leaves exactly one player who has not folded, that player
\* receives the whole pot as it is (nobody else's chips change), the pot is
\* 0, the phase is ENDED and the round is complete, within that call.
C10_LastFoldAwardsPot ==
    \A r \in {Attempt("fold", 0)} :
        (r.ok /\ Cardinality(NonFolded(r.g)) = 1)
        => /\ \A i \in Seats :
                 r.g.players[i].chips =
                     players[i].chips + (IF i \in NonFolded(r.g) THEN pot ELSE 0)
           /\ r.g.pot = 0
           /\ r.g.phase = "ended"
           /\ r.g.betting_round_complete

\* C10 witness: a hand ended by folds before the last shared card, the pot
\* paid to the one player left.
C10_Witness ==
    /\ phase = "ended"
    /\ pot = 0
    /\ Len(community_cards) < 4
    /\ Cardinality(NonFolded(game)) = 1
    /\ \E i \in Seats : /\ players[i].status = "active"
                        /\ players[i].chips > STARTING_CHIPS
                        /\ players[i].last_action = "none"

\* the total score of the best hand of the player at seat i
ShowdownScore(i) ==
    _calculate_total_score(evaluate_6_cards(players[i].hole_cards, community_cards))

\* the river round is over with two or more players left: the next
\* advance_to_next_phase call is the showdown that evaluates the hands
AtShowdown ==
    /\ phase = "river"
    /\ betting_round_complete
    /\ Cardinality(NonFolded(game)) >= 2

\* the players left whose score is the maximum, the scores given by seat
BestAmong(scores) ==
    {i \in DOMAIN scores : \A j \in DOMAIN scores : scores[j] <= scores[i]}

TiedWinners ==
    UNION {BestAmong(scores) : scores \in {[i \in NonFolded(game) |-> ShowdownScore(i)]}}

\* the game after the showdown (no card is dealt, the draws are not used)
Settled == advance_to_next_phase(game, NoSwapDraws)

\* the split of pot P between the winners W in the game g after the showdown:
\* every winner gets P div k or one chip more, P mod k of them get the chip
\* more, the others get nothing
ExhaustiveSplit(g, W, P) ==
    /\ \A i \in Seats \ W : g.players[i].chips = players[i].chips
    /\ \A i \in W : g.players[i].chips - players[i].chips
                        \in {P \div Cardinality(W), P \div Cardinality(W) + 1}
    /\ Cardinality({i \in W : g.players[i].chips - players[i].chips
                                  = P \div Cardinality(W) + 1}) = P % Cardinality(W)
    /\ SumSeq([i \in Seats |-> g.players[i].chips - players[i].chips]) = P
    /\ g.pot = 0
    /\ g.phase = "ended"

\* C11: at a showdown with k >= 1 players tied at the maximum score and pot P
\* each winner receives P div k, exactly P mod k winners one chip more, the
\* others nothing; the chips awarded sum to P, the pot is 0, the phase ENDED.
C11_SplitPotExhaustive ==
    AtShowdown => \A g \in {Settled} : \A W \in {TiedWinners} : ExhaustiveSplit(g, W, pot)

\* C11 witness: a showdown about to be settled between two tied players.
C11_Witness ==
    /\ AtShowdown
    /\ Cardinality(TiedWinners) = 2
    /\ pot > 0

\* the chips that the split in roster order gives to winner i of W from pot
\* P: the winners that come first in the roster get the chips of the remainder
SeatOrderShare(W, P, i) ==
    P \div Cardinality(W)
        + (IF Cardinality({j \in W : j < i}) < P % Cardinality(W) THEN 1 ELSE 0)

\* C12: the chips of the remainder go to the tied winners that come first in
\* roster order: of two tied players who split an odd pot the one seated
\* earlier receives one chip more than the other.
C12_RemainderInSeatOrder ==
    AtShowdown
    => \A g \in {Settled} : \A W \in {TiedWinners} : \A i \in W :
          g.players[i].chips - players[i].chips = SeatOrderShare(W, pot, i)

\* C12 witness: two tied players about to split an odd pot.
C12_Witness ==
    /\ AtShowdown
    /\ Cardinality(TiedWinners) = 2
    /\ pot % 2 = 1

\* the players of g keep the chips, the bet of the hand and the status they
\* have in the current state
StacksKept(g) ==
    /\ Len(g.players) = Len(players)
    /\ \A i \in Seats :
          /\ g.players[i].chips = players[i].chips
          /\ g.players[i].total_bet = players[i].total_bet
          /\ g.players[i].status = players[i].status

\* C13: advance_to_next_phase called with the round complete in PREFLOP, FLOP
\* or TURN sets every round-bet to 0, every last action to none and the
\* table bet to 0, and leaves chips, hand-total bets, statuses and the pot as
\* they are; called in RIVER it settles the hand and opens no betting round.
C13_AdvanceResetsRoundOnly ==
    betting_round_complete
    => \A draws \in ReshuffleDraws(deck) : \A g \in {advance_to_next_phase(game, draws)} :
          /\ phase \in {"preflop", "flop", "turn"}
             => /\ \A i \in Seats : /\ g.players[i].current_bet = 0
                                    /\ g.players[i].last_action = "none"
                /\ g.current_bet = 0
                /\ g.pot = pot
                /\ StacksKept(g)
                /\ PhaseIndex(g.phase) = PhaseIndex(phase) + 1
          /\ phase = "river"
             => /\ g.phase = "ended"
                /\ g.betting_round_complete
                /\ g.community_cards = community_cards
                /\ g.current_bet = current_bet
                /\ \A i \in Seats : /\ g.players[i].current_bet = players[i].current_bet
                                    /\ g.players[i].last_action = players[i].last_action

\* C13 witness: a complete pre-flop round with bets and actions to reset.
C13_Witness ==
    /\ betting_round_complete
    /\ phase = "preflop"
    /\ current_bet > 0
    /\ pot > 0
    /\ \E i \in Seats : players[i].current_bet > 0 /\ players[i].last_action # "none"

\* a complete river round, from which advance_to_next_phase settles the hand
C13_RiverWitness ==
    /\ betting_round_complete
    /\ phase = "river"
    /\ \E i \in Seats : players[i].last_action # "none"

\* the player ids of a roster, in roster order, and as a set
IdsOf(ps) == [k \in DOMAIN ps |-> ps[k].player_id]

IdSet(ps) == {ps[k].player_id : k \in DOMAIN ps}

\* the roster after start_new_hand is the players who had chips, in order;
\* when a hand is dealt every one of them has two cards, and a position is
\* given to a player of this roster only
RosterOfPlayersWithChips(g) ==
    /\ IdsOf(g.players) = IdsOf(SelectSeq(players, LAMBDA p : p.chips > 0))
    /\ \A k \in DOMAIN g.players : g.players[k].status # "out"
    /\ g.phase = "preflop" <=> Len(g.players) >= 2
    /\ g.phase = "preflop" => \A k \in DOMAIN g.players : Len(g.players[k].hole_cards) = 2
    /\ g.phase = "preflop" => \E k \in DOMAIN g.players : g.players[k].position = "big_blind"

\* eliminate_players changes nothing but the status of the players with no
\* chips, which is OUT afterwards; the list it returns is these players
\* unless they were OUT already
OnlyZeroChipPlayersOut(g, returned) ==
    /\ \A i \in Seats :
          /\ g.players[i].status =
                IF players[i].chips = 0 THEN "out" ELSE players[i].status
          /\ [g.players[i] EXCEPT !.status = players[i].status] = players[i]
    /\ IdsOf(returned) =
          IdsOf(SelectSeq(players, LAMBDA p : p.chips = 0 /\ p.status # "out"))
    /\ IdSet(returned) =
          {players[i].player_id : i \in {j \in Seats : /\ g.players[j].status = "out"
                                                        /\ players[j].status # "out"}}

\* C14: a player whose chips are 0 when start_new_hand is called is removed
\* from the roster before positions, cards and blinds are given, and is in no
\* roster afterwards; eliminate_players marks every player without chips who
\* is not OUT as OUT and returns exactly those players.
C14_ZeroChipPlayersLeaveTheGame ==
    /\ [](phase \in {"waiting", "ended"}
            => /\ \A draws \in Shuffles : RosterOfPlayersWithChips(start_new_hand(game, draws))
               /\ OnlyZeroChipPlayersOut(eliminate_players(game), eliminated(game)))
    /\ [][IdSet(players') \subseteq IdSet(players)]_vars

\* C14 witness: a hand has ended at a table of three where one player has
\* no chips left and is not yet OUT, so that the next hand is dealt to two.
C14_Witness ==
    /\ phase = "ended"
    /\ Len(players) = 3
    /\ Cardinality({i \in Seats : players[i].chips = 0 /\ players[i].status # "out"}) = 1

\* the roster of one player left after start_new_hand at a table of two
C14_RosterShrunk ==
    /\ hand_number = 2
    /\ Len(players) = 1

\* a hand has been played and settled
HandSettled ==
    /\ phase = "ended"
    /\ hand_number >= 1
    /\ pot = 0

\* C15: in every state after a hand has been settled, is_game_over() is true
\* if at most one player of the roster has chips and false if two or more
\* players have chips.
C15_GameOverIffOneHasChips ==
    HandSettled
    => (is_game_over(game) <=> Cardinality({i \in Seats : players[i].chips > 0}) <= 1)

\* the private cards of the players ps, one after the other
RECURSIVE HoleCardsOf(_)
HoleCardsOf(ps) ==
    IF ps = <<>> THEN <<>> ELSE Head(ps).hole_cards \o HoleCardsOf(Tail(ps))

\* the cards of the game g whose place is recorded: deck, private, shared
CardsHeld(g) == g.deck \o HoleCardsOf(g.players) \o g.community_cards

\* the cards burned so far: one before each deal to the shared cards (flop
\* of two cards, turn, river); the code keeps no record of them
BurnedCount(g) ==
    CASE g.phase = "flop" -> 1
      [] g.phase = "turn" -> 2
      [] g.phase = "river" -> 3
      [] OTHER -> 0

\* the shared cards of each phase of a hand
BoardSize(ph) ==
    CASE ph = "flop" -> 2
      [] ph = "turn" -> 3
      [] ph = "river" -> 4
      [] OTHER -> 0

\* `held` is distinct cards of the deck of 52, and with the burned cards
\* there are 52 of them
DistinctAndComplete(held, burned) ==
    /\ Cardinality(Range(held)) = Len(held)
    /\ Range(held) \subseteq Range(create_deck)
    /\ Len(held) + burned = Len(create_deck)

CardsConserved(g) ==
    /\ Len(g.community_cards) = BoardSize(g.phase)
    /\ \A k \in DOMAIN g.players : Len(g.players[k].hole_cards) = 2
    /\ DistinctAndComplete(CardsHeld(g), BurnedCount(g))

\* the hand of a table of n players dealt out with no betting, after
\* `advances` calls of advance_to_next_phase
RECURSIVE DealtOut(_, _, _)
DealtOut(n, draws, advances) ==
    IF advances = 0 THEN start_new_hand(NewGame(n), draws)
    ELSE advance_to_next_phase(DealtOut(n, draws, advances - 1), NoSwapDraws)

\* C16: from start_new_hand until the hand ends the deck, the private cards,
\* the shared cards and the burned cards are distinct cards, 52 together, so
\* that no card is dealt twice; for every table of 2 to 8 players.
C16_CardConservation ==
    /\ phase \in BettingPhases => CardsConserved(game)
    /\ phase = "waiting"
       => \A n \in MIN_PLAYERS..MAX_PLAYERS : \A draws \in Shuffles : \A advances \in 0..3 :
             CardsConserved(DealtOut(n, draws, advances))

\* C16 witness: the river of a table of three, every card of the hand dealt.
C16_Witness ==
    /\ phase = "river"
    /\ Len(players) = 3
    /\ Len(community_cards) = 4
    /\ Len(deck) = 52 - 6 - 4 - 3

\* the six cards of the player at seat i, private cards first
SixCards(i) == players[i].hole_cards \o community_cards

\* six cards without the card at index `out`
LeaveOneOut(cards, out) ==
    [k \in 1..(Len(cards) - 1) |-> cards[IF k < out THEN k ELSE k + 1]]

\* five cards of the ranks and suits (indices of Suit) given
Hand(ranks, suits) == [k \in 1..5 |-> Card(Suit[suits[k]], ranks[k])]

MixedSuits == <<1, 2, 3, 4, 1>>

OneSuit == <<1, 1, 1, 1, 1>>

\* the lowest and the highest hand of every hand type, with the straights
\* A-2-3-4-5 and 2-3-4-5-6
SampleHands ==
    {Hand(<<7, 5, 4, 3, 2>>, MixedSuits), Hand(<<14, 13, 12, 11, 9>>, MixedSuits),
     Hand(<<2, 2, 5, 4, 3>>, MixedSuits), Hand(<<14, 14, 13, 12, 11>>, MixedSuits),
     Hand(<<2, 2, 3, 3, 4>>, MixedSuits), Hand(<<14, 14, 13, 13, 12>>, MixedSuits),
     Hand(<<2, 2, 2, 4, 3>>, MixedSuits), Hand(<<14, 14, 14, 13, 12>>, MixedSuits),
     Hand(<<14, 2, 3, 4, 5>>, MixedSuits), Hand(<<2, 3, 4, 5, 6>>, MixedSuits),
     Hand(<<10, 11, 12, 13, 14>>, MixedSuits),
     Hand(<<7, 5, 4, 3, 2>>, OneSuit), Hand(<<14, 13, 12, 11, 9>>, OneSuit),
     Hand(<<2, 2, 2, 3, 3>>, MixedSuits), Hand(<<14, 14, 14, 13, 13>>, MixedSuits),
     Hand(<<2, 2, 2, 2, 3>>, MixedSuits), Hand(<<14, 14, 14, 14, 13>>, MixedSuits),
     Hand(<<14, 2, 3, 4, 5>>, OneSuit), Hand(<<9, 10, 11, 12, 13>>, OneSuit),
     Hand(<<10, 11, 12, 13, 14>>, OneSuit)}

\* the evaluations of the five-card hands of the players at the table and
\* of the sample hands, each with its total score
Evaluated(cards) ==
    [evaluation |-> _evaluate_5_cards(cards),
     total |-> _calculate_total_score(_evaluate_5_cards(cards))]

HandsCompared ==
    {Evaluated(LeaveOneOut(SixCards(i), out)) : i \in Seats, out \in 1..6}
        \cup {Evaluated(cards) : cards \in SampleHands}

\* the best hand of the player at seat i, as the engine evaluates it
BestHand(i) == evaluate_6_cards(players[i].hole_cards, community_cards)

\* C17: of two five-card evaluations the one of the higher hand type has the
\* strictly greater total score, whatever the scores within the types and
\* the kickers.
C17_HandTypeDominates ==
    AtShowdown
    => \A hands \in {HandsCompared} : \A a \in hands : \A b \in hands :
          a.evaluation.hand_type > b.evaluation.hand_type => a.total > b.total

\* C17 witness: a showdown of four of a kind against a full house, compared
\* with sample hands of all ten hand types.
C17_Witness ==
    /\ AtShowdown
    /\ BestHand(1).hand_type = FOUR_KIND
    /\ BestHand(2).hand_type = FULL_HOUSE
    /\ {_evaluate_5_cards(cards).hand_type : cards \in SampleHands} = HIGH_CARD..ROYAL_FLUSH

\* the ranks that break ties between hands of one type, most significant
\* first: the high card of a straight (5 for A-2-3-4-5), else the ranks of
\* the hand by falling count and, among ranks of equal count, falling rank
RECURSIVE ByCountThenRank(_, _)
ByCountThenRank(cards, ranks) ==
    IF ranks = {} THEN <<>>
    ELSE LET top == CHOOSE r \in ranks : \A q \in ranks :
                        rank_count(cards, q) * 100 + q <= rank_count(cards, r) * 100 + r
         IN  <<top>> \o ByCountThenRank(cards, ranks \ {top})

TieBreakRanks(evaluation) ==
    IF evaluation.hand_type \in {STRAIGHT, STRAIGHT_FLUSH, ROYAL_FLUSH}
    THEN IF Range(ranks_of(evaluation.cards)) = {2, 3, 4, 5, 14} THEN <<5>>
         ELSE <<MaxRank(evaluation.cards)>>
    ELSE ByCountThenRank(evaluation.cards, Range(ranks_of(evaluation.cards)))

\* a is below b at the first index where they differ
LexLess(a, b) ==
    \E k \in DOMAIN a : /\ k \in DOMAIN b
                        /\ a[k] < b[k]
                        /\ \A j \in 1..(k - 1) : a[j] = b[j]

\* C18: two five-card hands of one hand type have equal total scores only if
\* all their tie-break ranks are equal, and otherwise the hand with the
\* higher first differing rank has the strictly higher total score.
C18_TieBreakRanksOrderScores ==
    AtShowdown
    => \A hands \in {HandsCompared} : \A a \in hands : \A b \in hands :
          a.evaluation.hand_type = b.evaluation.hand_type
          => /\ a.total = b.total
                => TieBreakRanks(a.evaluation) = TieBreakRanks(b.evaluation)
             /\ LexLess(TieBreakRanks(a.evaluation), TieBreakRanks(b.evaluation))
                => a.total < b.total

\* the same for the hand types other than HIGH_CARD and FLUSH
C18_OrderedButHighCardAndFlush ==
    AtShowdown
    => \A hands \in {HandsCompared} : \A a \in hands : \A b \in hands :
          /\ a.evaluation.hand_type = b.evaluation.hand_type
          /\ a.evaluation.hand_type \notin {HIGH_CARD, FLUSH}
          => /\ a.total = b.total
                => TieBreakRanks(a.evaluation) = TieBreakRanks(b.evaluation)
             /\ LexLess(TieBreakRanks(a.evaluation), TieBreakRanks(b.evaluation))
                => a.total < b.total

\* the total score of the hand evaluate_6_cards returns for the six cards
\* `six`, the cards at indices a and b private
ScoreWithPrivate(six, a, b) ==
    _calculate_total_score(
        evaluate_6_cards(<<six[a], six[b]>>,
                         SelectSeq(six, LAMBDA c : c # six[a] /\ c # six[b])))

\* `best` is the maximum of the total scores of the five-card subsets of six
MaxOverSubsets(six, best) ==
    /\ \A out \in 1..6 : Evaluated(LeaveOneOut(six, out)).total <= best
    /\ \E out \in 1..6 : Evaluated(LeaveOneOut(six, out)).total = best

\* C19: the evaluation evaluate_6_cards returns has the maximum total score
\* of the five-card subsets of the six cards; the score is the same whatever
\* the order of the six cards and whichever two of them are the private ones.
C19_BestOfAllSubsets ==
    AtShowdown
    => \A i \in Seats : \A best \in {_calculate_total_score(BestHand(i))} :
          /\ MaxOverSubsets(SixCards(i), best)
          /\ \A a \in 1..6 : \A b \in (1..6) \ {a} : ScoreWithPrivate(SixCards(i), a, b) = best

\* C19 witness: a showdown where the best five cards of a player are the
\* private cards and the first three shared cards.
C19_Witness ==
    /\ AtShowdown
    /\ \E i \in Seats :
          /\ Evaluated(LeaveOneOut(SixCards(i), 6)).total = _calculate_total_score(BestHand(i))
          /\ \A out \in 1..5 :
                Evaluated(LeaveOneOut(SixCards(i), out)).total < _calculate_total_score(BestHand(i))

\* the six cards of seat i are A,2,3,4,5 of mixed suits and a card that
\* makes no higher straight
HoldsAceLowStraight(i) ==
    \E out \in 1..6 :
        /\ Range(ranks_of(LeaveOneOut(SixCards(i), out))) = {2, 3, 4, 5, 14}
        /\ ~_is_flush(LeaveOneOut(SixCards(i), out))
        /\ SixCards(i)[out].rank \notin {2, 3, 4, 5, 6, 14}

SixHighStraight(evaluation) ==
    /\ evaluation.hand_type = STRAIGHT
    /\ Range(ranks_of(evaluation.cards)) = {2, 3, 4, 5, 6}

\* C20: six cards that hold A,2,3,4,5 of mixed suits and an unrelated card
\* evaluate to STRAIGHT with high card 5, with a total score strictly below
\* a six-high straight and strictly above any three of a kind.
C20_AceLowStraight ==
    AtShowdown
    => \A i \in Seats : HoldsAceLowStraight(i)
          => \A best \in {BestHand(i)} : \A hands \in {HandsCompared} :
                /\ best.hand_type = STRAIGHT
                /\ best.score = 100 + 5
                /\ best.kickers = <<5>>
                /\ \A h \in hands :
                      /\ SixHighStraight(h.evaluation) => _calculate_total_score(best) < h.total
                      /\ h.evaluation.hand_type = THREE_KIND => _calculate_total_score(best) > h.total

\* C20 witness: the showdown of 2c 3d 4h 5s Ad 9c against a six-high
\* straight.
C20_Witness ==
    /\ AtShowdown
    /\ HoldsAceLowStraight(1)
    /\ Range(SixCards(1)) = {Card("clubs", 2), Card("diamonds", 3), Card("hearts", 4),
                             Card("spades", 5), Card("diamonds", 14), Card("clubs", 9)}
    /\ SixHighStraight(BestHand(2))

\* six cards without a pair, a straight or a flush among them
NothingButHighCards(six) ==
    /\ Cardinality(Range(ranks_of(six))) = 6
    /\ \A out \in 1..6 :
          /\ ~_is_straight_values(ranks_of(LeaveOneOut(six, out)))
          /\ ~_is_flush(LeaveOneOut(six, out))

\* the five highest ranks of six cards of different ranks
FiveHighestRanks(six) ==
    {r \in Range(ranks_of(six)) : \E q \in Range(ranks_of(six)) : q < r}

\* the evaluation of the six cards `six` with the cards at a and b private
EvaluationWithPrivate(six, a, b) ==
    evaluate_6_cards(<<six[a], six[b]>>,
                     SelectSeq(six, LAMBDA c : c # six[a] /\ c # six[b]))

\* C21: for six cards with no pair, no straight and no flush, whichever two
\* of them are private, evaluate_6_cards returns HIGH_CARD and the five cards
\* returned are those of the five highest ranks: the lowest card is left out.
C21_HighCardKeepsFiveHighest ==
    AtShowdown
    => \A i \in Seats : NothingButHighCards(SixCards(i))
          => \A a \in 1..6 : \A b \in (1..6) \ {a} :
                \A best \in {EvaluationWithPrivate(SixCards(i), a, b)} :
                   /\ best.hand_type = HIGH_CARD
                   /\ Range(ranks_of(best.cards)) = FiveHighestRanks(SixCards(i))

\* the part of C21 about the hand type and the highest rank
C21_HighCardTypeAndTopRank ==
    AtShowdown
    => \A i \in Seats : NothingButHighCards(SixCards(i))
          => \A a \in 1..6 : \A b \in (1..6) \ {a} :
                \A best \in {EvaluationWithPrivate(SixCards(i), a, b)} :
                   /\ best.hand_type = HIGH_CARD
                   /\ best.kickers[1] = MaxRank(SixCards(i))

\* C22: there are no side pots: every player who has not folded competes
\* for the whole pot, and a single best player receives all of it whatever
\* that player has bet in the hand.
C22_BestHandTakesWholePot ==
    AtShowdown
    => \A g \in {Settled} : \A W \in {TiedWinners} : \A w \in W :
          Cardinality(W) = 1 => g.players[w].chips = players[w].chips + pot

\* C22 witness: the single best hand at a showdown is that of a player who is
\* all-in for less than another player has bet.
C22_Witness ==
    /\ AtShowdown
    /\ \E w \in Seats :
          /\ players[w].status = "all_in"
          /\ \E j \in NonFolded(game) : players[j].total_bet > players[w].total_bet
          /\ \A W \in {TiedWinners} : W = {w}

\* start_new_hand has dealt a hand and nobody has acted in it
HandJustStarted ==
    /\ phase = "preflop"
    /\ \A i \in Seats : players[i].last_action = "none"

\* in the game g a hand has just been started: the blinds posted count in
\* the round of the players who posted them, the table bet is the highest
\* round-bet and the big blind owes nothing
BlindsCountInRound(g) ==
    /\ \A k \in DOMAIN g.players :
          g.players[k].position \in {"small_blind", "big_blind"}
          => g.players[k].current_bet = g.players[k].total_bet
    /\ \A k \in DOMAIN g.players : g.players[k].current_bet <= g.current_bet
    /\ \E k \in DOMAIN g.players : g.players[k].current_bet = g.current_bet
    /\ \A k \in DOMAIN g.players :
          g.players[k].position = "big_blind" => g.current_bet - g.players[k].current_bet = 0

\* C23: after start_new_hand the round-bet of the small blind and of the big
\* blind is the blind each has posted, so that the table bet is the highest
\* round-bet and the big blind owes 0 to call an unraised pot.
C23_BlindsAreRoundBets ==
    HandJustStarted => BlindsCountInRound(game)

SeatAfter(t, d, n) == ((t - 1 + d) % n) + 1

\* in the game g the turn is at the first seat clockwise after seat t whose
\* player can act
TurnAtFirstCanActAfter(g, t) ==
    /\ g.current_player \in 0..(Len(g.players) - 1)
    /\ \E d \in 1..(Len(g.players) - 1) :
          /\ g.current_player + 1 = SeatAfter(t, d, Len(g.players))
          /\ can_act(g.players[SeatAfter(t, d, Len(g.players))])
          /\ \A e \in 1..(d - 1) : ~can_act(g.players[SeatAfter(t, e, Len(g.players))])

\* C25: after every successful action that does not complete the round the
\* turn is at the first seat clockwise after the acting seat whose player
\* can act; seats that are folded, all-in or out are passed over and the
\* turn is at one seat of the table.
C25_TurnToNextWhoCanAct ==
    \A action \in PlayerAction : \A amount \in AmountsFor(action) :
        \A r \in {Attempt(action, amount)} :
            (r.ok /\ ~r.g.betting_round_complete) => TurnAtFirstCanActAfter(r.g, Turn)

\* C25 witness: a raise at a table of three keeps the round open and the
\* turn passes over the next seat, whose player cannot act.
C25_Witness ==
    /\ Len(players) = 3
    /\ \E amount \in RaiseAmounts : \A r \in {Attempt("raise", amount)} :
          /\ r.ok
          /\ ~r.g.betting_round_complete
          /\ r.g.current_player + 1 # SeatAfter(Turn, 1, 3)

\* in the game g the turn is at the first seat, clockwise from seat `start`
\* and counting it, whose player can act
TurnAtFirstCanActFrom(g, start) ==
    \E d \in 0..(Len(g.players) - 1) :
        /\ g.current_player + 1 = SeatAfter(start, d, Len(g.players))
        /\ can_act(g.players[SeatAfter(start, d, Len(g.players))])
        /\ \A e \in 0..(d - 1) : ~can_act(g.players[SeatAfter(start, e, Len(g.players))])

SomebodyCanAct(g) == \E k \in DOMAIN g.players : can_act(g.players[k])

SeatsAt(g, pos) == {k \in DOMAIN g.players : g.players[k].position = pos}

\* C26: at the start of the pre-flop round the turn is at the first seat
\* that can act, clockwise from the seat after the big blind (heads-up the
\* small blind); at the start of a post-flop round it is at the small blind
\* if that player can act, else at the first seat clockwise from it that can.
C26_FirstToAct ==
    /\ (HandJustStarted /\ SomebodyCanAct(game))
       => \A bb \in SeatsAt(game, "big_blind") :
             TurnAtFirstCanActFrom(game, SeatAfter(bb, 1, Len(players)))
    /\ (betting_round_complete /\ phase \in {"preflop", "flop", "turn"})
       => \A draws \in ReshuffleDraws(deck) : \A g \in {advance_to_next_phase(game, draws)} :
             SomebodyCanAct(g)
             => \A sb \in SeatsAt(g, "small_blind") : TurnAtFirstCanActFrom(g, sb)

\* C26 witness: a post-flop round is about to start at a table of three
\* where the small blind has folded and the two others can act.
C26_Witness ==
    /\ betting_round_complete
    /\ phase \in {"preflop", "flop", "turn"}
    /\ Len(players) = 3
    /\ \E sb \in SeatsAt(game, "small_blind") :
          /\ players[sb].status = "folded"
          /\ \A k \in Seats \ {sb} : can_act(players[k])

\* the first hand of a heads-up game has started, the small blind to act
C26_HeadsUpWitness ==
    /\ HandJustStarted
    /\ Len(players) = 2
    /\ players[Turn].position = "small_blind"

\* the positions of the game g: one small blind and one big blind; of two
\* players the dealer is the small blind and nobody the button; of three or
\* more the button is the dealer and the blinds are the next two seats
PositionsAssigned(g) ==
    /\ Cardinality(SeatsAt(g, "small_blind")) = 1
    /\ Cardinality(SeatsAt(g, "big_blind")) = 1
    /\ SeatsAt(g, "small_blind") # SeatsAt(g, "big_blind")
    /\ Len(g.players) = 2
       => /\ SeatsAt(g, "button") = {}
          /\ SeatsAt(g, "small_blind") = {(g.dealer_position % 2) + 1}
    /\ Len(g.players) >= 3
       => \A n \in {Len(g.players)} : \A button \in {(g.dealer_position % n) + 1} :
             /\ SeatsAt(g, "button") = {button}
             /\ SeatsAt(g, "small_blind") = {SeatAfter(button, 1, n)}
             /\ SeatsAt(g, "big_blind") = {SeatAfter(button, 2, n)}

\* C27: every started hand of two or more players has one SMALL_BLIND and
\* one BIG_BLIND seat, on different players; of two players the dealer seat
\* is the small blind and there is no BUTTON; of three or more BUTTON,
\* SMALL_BLIND and BIG_BLIND are consecutive seats from dealer_position mod n.
C27_PositionAssignment ==
    /\ phase \in BettingPhases => PositionsAssigned(game)
    /\ phase \in {"waiting", "ended"}
       => \A dealer \in 0..Len(players) :
             \A g \in {start_new_hand([game EXCEPT !.dealer_position = dealer], NoSwapDraws)} :
                g.phase = "preflop" => PositionsAssigned(g)

\* C27 witness: a hand of three players is being played.
C27_Witness ==
    /\ phase \in BettingPhases
    /\ Len(players) = 3
    /\ players[1].position = "button"

\* a hand of two players is being played, the second of a game
C27_HeadsUpWitness ==
    /\ phase \in BettingPhases
    /\ Len(players) = 2
    /\ hand_number = 2

\* the amounts a player p is asked to bet, and the targets to raise to:
\* nothing, the blinds, the bet of the round and one next to it, the whole
\* stack and one chip more than the stack can pay
BetAmounts(p) ==
    {0, SMALL_BLIND, BIG_BLIND, p.chips, p.chips + 1, p.chips + BIG_BLIND}

RaiseTargets(p) ==
    {0, p.current_bet, p.current_bet + 1, p.current_bet + BIG_BLIND,
     p.current_bet + p.chips, p.current_bet + p.chips + 1}

\* place_bet(amount) on the player p, as claimed
PlaceBetAsClaimed(p, amount) ==
    \A r \in {place_bet(p, amount)} :
       IF amount > p.chips
       THEN ~r.ok /\ r.p = p
       ELSE /\ r.ok
            /\ r.p.chips = p.chips - amount
            /\ r.p.current_bet = p.current_bet + amount
            /\ r.p.total_bet = p.total_bet + amount
            /\ r.p.chips + r.p.total_bet = p.chips + p.total_bet
            /\ r.p.status = (IF r.p.chips = 0 THEN "all_in" ELSE p.status)
            /\ [r.p EXCEPT !.chips = 0, !.current_bet = 0, !.total_bet = 0,
                           !.status = "none"]
               = [p EXCEPT !.chips = 0, !.current_bet = 0, !.total_bet = 0,
                           !.status = "none"]

\* raise_bet(target) on the player p is turned down as claimed
RaiseBetTurnedDown(p, target) ==
    (target <= p.current_bet \/ target - p.current_bet > p.chips)
    => \A r \in {raise_bet(p, target)} : ~r.ok /\ r.p = p

\* C28: place_bet(amount) with amount > chips returns False and changes
\* nothing; otherwise chips goes down by amount, the bets of the round and
\* of the hand go up by amount, chips + hand-bet keeps its value and the
\* status becomes ALL_IN exactly when chips reaches 0; raise_bet(target)
\* returns False without change when target <= the bet of the round or
\* target - round-bet > chips.
C28_PlaceBetAndRaiseBet ==
    \A i \in Seats :
       /\ \A amount \in BetAmounts(players[i]) : PlaceBetAsClaimed(players[i], amount)
       /\ \A target \in RaiseTargets(players[i]) : RaiseBetTurnedDown(players[i], target)

\* C28 witness: one player has bet the whole stack and is ALL_IN, another
\* has a bet in the round and chips left, so that betting more than the
\* stack, raising to the own bet and raising beyond the stack are turned
\* down while a smaller bet is booked.
C28_Witness ==
    /\ \E i \in Seats : /\ players[i].status = "all_in"
                        /\ players[i].chips = 0
                        /\ players[i].total_bet > 0
    /\ \E k \in Seats : /\ players[k].current_bet > 0
                        /\ players[k].chips > BIG_BLIND
                        /\ ~place_bet(players[k], players[k].chips + 1).ok
                        /\ place_bet(players[k], BIG_BLIND).ok
                        /\ ~raise_bet(players[k], players[k].current_bet).ok

\* the table bets the player p is asked about: the bet of the game, the own
\* round-bet, one chip above it, what the stack just covers and one chip more
\* (the game never holds a table bet below a round-bet)
TableBetsFor(p) ==
    {current_bet} \cup {p.current_bet + d : d \in {0, 1, p.chips, p.chips + 1}}

\* the actions offered to the player p at the table bet and minimum raise
\* given, as claimed
ActionsAsClaimed(p, table_bet, raise_min) ==
    \A actions \in {get_available_actions(p, table_bet, raise_min)} :
       IF p.chips = 0 \/ p.status \in {"all_in", "folded", "out"}
       THEN actions = {}
       ELSE /\ actions # {}
            /\ "check" \in actions <=> p.current_bet = table_bet
            /\ "call" \in actions
               <=> (0 < table_bet - p.current_bet /\ table_bet - p.current_bet <= p.chips)
            /\ "raise" \in actions <=> p.chips + p.current_bet >= table_bet + raise_min
            /\ "fold" \in actions
            /\ "all_in" \in actions

C29_CheckWitness ==
    \E i \in Seats :
       /\ phase \in BettingPhases
       /\ can_act(players[i])
       /\ "check" \in get_available_actions(players[i], current_bet, min_raise)

\* the seats of the roster ps held by the player of identity id
SeatsOf(ps, id) == {m \in DOMAIN ps : ps[m].player_id = id}

\* a step that starts a hand: a player with chips is in the new hand, ACTIVE
\* or ALL_IN by the blind that took the last chips; a player without chips
\* and a player who was OUT are not in the new hand
NewHandStep ==
    \A k \in Seats : \A seats \in {SeatsOf(players', players[k].player_id)} :
       IF players[k].chips > 0 /\ players[k].status # "out"
       THEN /\ Cardinality(seats) = 1
            /\ \A m \in seats :
                  \/ players'[m].status = "active"
                  \/ /\ players'[m].status = "all_in"
                     /\ players'[m].chips = 0
                     /\ players'[m].total_bet = players[k].chips
                     /\ phase' = "preflop"
       ELSE seats = {}

\* a step that starts no hand: the roster stays, and a status stays or goes
\* from ACTIVE to FOLDED or ALL_IN, or to OUT for a player without chips
\* once the hand has ended
SameHandStep ==
    /\ IdsOf(players') = IdsOf(players)
    /\ \A k \in Seats :
          \/ players'[k].status = players[k].status
          \/ /\ players[k].status = "active"
             /\ players'[k].status \in {"folded", "all_in"}
          \/ /\ players'[k].status = "out"
             /\ players[k].chips = 0
             /\ phase = "ended"

\* C30: within a hand a status only changes from ACTIVE to FOLDED or from
\* ACTIVE to ALL_IN; a FOLDED or ALL_IN player does not become ACTIVE again
\* nor the other of the two before start_new_hand, which makes a player
\* ACTIVE with chips and OUT without; a player who is OUT stays OUT.
C30_StatusLifecycle ==
    [][IF hand_number' # hand_number THEN NewHandStep ELSE SameHandStep]_vars

\* C30 witness: in the second hand of a game, whose players were made
\* ACTIVE again by start_new_hand, one player has folded.
C30_Witness ==
    /\ hand_number = 2
    /\ phase \in BettingPhases \cup {"ended"}
    /\ \E i \in Seats : players[i].status = "folded"
    /\ \E k \in Seats : players[k].status = "active"

\* a hand of three with one player FOLDED, one ALL_IN and one ACTIVE
C30_ThreeStatusesWitness ==
    /\ \E i \in Seats : players[i].status = "folded"
    /\ \E k \in Seats : players[k].status = "all_in"
    /\ \E n \in Seats : players[n].status = "active"

\* a player without chips was marked OUT after the hand
C30_OutWitness ==
    \E i \in Seats : players[i].status = "out"

\* the second hand found a single player left
C30_RemovedWitness ==
    /\ hand_number = 2
    /\ Len(players) = 1

\* C31: in every state of an open betting round (phase PREFLOP, FLOP, TURN
\* or RIVER, betting_round_complete false) the player whose turn it is can
\* act and has an action that process_player_action accepts; a round opened
\* when no player can act is marked complete.
C31_OpenRoundHasAnActor ==
    (phase \in BettingPhases /\ ~betting_round_complete)
    => /\ Turn \in Seats
       /\ can_act(players[Turn])
       /\ \E action \in PlayerAction : \E amount \in AmountsFor(action) :
             Attempt(action, amount).ok

(***************************************************************************)
(* A driver of one hand after the other, as betting_round of main.py       *)
(* drives a round: while the round is open it submits an action offered    *)
(* to the player to act, a RAISE with the smallest or the largest amount   *)
(* of the offered range; when the round is complete it calls               *)
(* advance_to_next_phase.  The accepted RAISE calls are counted in extras  *)
(* and bounded like those of Spec; the other offered actions stay open.    *)
(***************************************************************************)
LegalRaiseAmounts(g, p) ==
    {amount \in {g.current_bet + g.min_raise, p.chips + p.current_bet} :
        /\ amount >= g.current_bet + g.min_raise
        /\ amount <= p.chips + p.current_bet}

LegalAmounts(g, p, action) ==
    IF action = "raise" THEN LegalRaiseAmounts(g, p) ELSE {0}

\* the actions offered to the player to act
OfferedActions ==
    IF Turn \in Seats
    THEN get_available_actions(players[Turn], current_bet, min_raise)
    ELSE {}

DriverAct ==
    /\ phase \in BettingPhases
    /\ ~betting_round_complete
    /\ \E action \in OfferedActions :
          \E amount \in LegalAmounts(game, players[Turn], action) :
             \E r \in {process_player_action(game, action, amount)} : Outcome(action, r)
    /\ UNCHANGED num_players

DriverAdvance ==
    /\ phase \in BettingPhases
    /\ betting_round_complete
    /\ \E draws \in ReshuffleDraws(deck) :
          \E g \in {advance_to_next_phase(game, draws)} : Becomes(g)
    /\ UNCHANGED <<num_players, extras>>

NextDriver ==
    \/ StartNewHand
    \/ DriverAct
    \/ DriverAdvance

\* the driver has a step that changes the state of the hand
DriverCanStep ==
    /\ phase \in BettingPhases
    /\ \/ betting_round_complete
       \/ \E action \in OfferedActions :
             \E amount \in LegalAmounts(game, players[Turn], action) :
                \E r \in {process_player_action(game, action, amount)} :
                   /\ r.g # game
                   /\ (action = "raise" /\ r.ok) => extras < MaxExtras

\* the driver does not stop while it has a step to take in the hand: weak
\* fairness WF_vars(DriverAct \/ DriverAdvance), written out with the
\* enabling condition as the state predicate DriverCanStep; the steps of the
\* driver inside a hand are those that keep hand_number
DriverFairness ==
    []<>(~DriverCanStep) \/ []<><<hand_number' = hand_number>>_vars

SpecDriver == Init /\ [][NextDriver]_vars /\ DriverFairness

\* C32: a hand started by start_new_hand with two or more players, driven
\* with offered actions while the round is open and advance_to_next_phase
\* when it is complete, reaches phase ENDED with an empty pot: as long as
\* the hand has not ended the driver has a step to take, and the hand that
\* has ended has an empty pot.
C32_HandTerminates ==
    /\ phase \in BettingPhases => DriverCanStep
    /\ phase = "ended" => pot = 0

\* a driven hand ends unless the driver is left without a step
DrivenHandEndsUnlessStuck ==
    (phase \in BettingPhases)
    ~> \/ phase = "ended" /\ pot = 0
       \/ phase \in BettingPhases /\ ~DriverCanStep

\* C33: whenever a betting round is marked complete while two or more
\* players have not folded, every player who can still act has a round-bet
\* equal to the table bet: a player facing a bet gets to respond.
C33_FacingABetResponds ==
    (phase \in BettingPhases /\ betting_round_complete
        /\ Cardinality(NonFolded(game)) >= 2)
    => \A i \in Seats : can_act(players[i]) => players[i].current_bet = current_bet

\* C34: whenever the betting round is not complete and the player whose turn
\* it is can act, process_player_action returns True for every action of
\* that player's get_available_actions(current_bet, min_raise), RAISE taken
\* with any amount from current_bet + min_raise to chips + round-bet.
C34_OfferedActionsAccepted ==
    (~betting_round_complete /\ Turn \in Seats /\ can_act(players[Turn]))
    => \A action \in OfferedActions :
          \A amount \in LegalAmounts(game, players[Turn], action) :
             Attempt(action, amount).ok

\* C34 witness: in an open round after the flop the player to act is offered
\* CHECK and RAISE beside FOLD and ALL_IN, and the check is accepted.
C34_Witness ==
    /\ phase = "flop"
    /\ ~betting_round_complete
    /\ Turn \in Seats
    /\ OfferedActions = {"fold", "check", "raise", "all_in"}
    /\ Attempt("check", 0).ok
    /\ Attempt("raise", current_bet + min_raise).ok

\* before the flop the player to act is offered CALL and RAISE, and the call
\* is accepted
C34_CallWitness ==
    /\ phase = "preflop"
    /\ ~betting_round_complete
    /\ Turn \in Seats
    /\ OfferedActions = {"fold", "call", "raise", "all_in"}
    /\ Attempt("call", 0).ok

\* the pot holds what the players of the roster have bet in the hand
PotIsSumOfBets ==
    phase \in BettingPhases
    => pot = SumSeq([i \in Seats |-> players[i].total_bet])

\* a step that starts a hand or goes on inside it leaves chips + total_bet
\* of every player at the chips the player had when the hand started
StakeKept ==
    phase' \in BettingPhases
    => \A k \in DOMAIN players' :
          \A i \in SeatsOf(players, players'[k].player_id) :
             players'[k].chips + players'[k].total_bet
                = IF hand_number' # hand_number
                  THEN players[i].chips
                  ELSE players[i].chips + players[i].total_bet

\* C35: at every state of a hand between start_new_hand and the settlement
\* the pot equals the sum of the hand-total bets of the players, and chips +
\* total_bet of each player equals the chips held when the hand started.
C35_PotAccounting ==
    []PotIsSumOfBets /\ [][StakeKept]_vars

\* what the claim of a closed hand speaks of: chips, bets and status of the
\* players, and the pot
Holdings(g) ==
    [pot |-> g.pot,
     players |-> [i \in DOMAIN g.players |->
                    [chips |-> g.players[i].chips,
                     current_bet |-> g.players[i].current_bet,
                     total_bet |-> g.players[i].total_bet,
                     status |-> g.players[i].status]]]

\* C36: once the phase is ENDED every process_player_action call is
\* rejected and leaves chips, bets, status and pot alone, and
\* advance_to_next_phase has no effect, so that a call made after it is
\* rejected as well.
C36_SettledHandIsClosed ==
    phase = "ended"
    => /\ \A action \in PlayerAction : \A amount \in AmountsFor(action) :
             \A r \in {Attempt(action, amount)} :
                ~r.ok /\ Holdings(r.g) = Holdings(game)
       /\ \A draws \in ReshuffleDraws(deck) :
             \A g \in {advance_to_next_phase(game, draws)} :
                /\ g = game
                /\ \A action \in PlayerAction : \A amount \in AmountsFor(action) :
                      ~process_player_action(g, action, amount).ok

\* TexasHoldemGame.show_cards, the settlement of the main loop
show_cards(g) == _showdown([g EXCEPT !.phase = "showdown"])

\* the chips of the players of g
ChipsOfPlayers(g) == SumSeq([i \in DOMAIN g.players |-> g.players[i].chips])

\* the call that led from g to after has not emptied the pot without
\* crediting its chips to the players
Credited(g, after) ==
    after.pot = 0 => ChipsOfPlayers(after) = ChipsOfPlayers(g) + g.pot

\* C37: whenever the pot is set to 0, by the showdown that
\* advance_to_next_phase reaches after the river, by the last fold, by
\* show_cards called as the main loop calls it after the third betting
\* round, or by start_new_hand, its chips have been credited to players.
C37_PotNeverDiscarded ==
    /\ (phase = "river" /\ betting_round_complete)
       => \A draws \in ReshuffleDraws(deck) :
             Credited(game, advance_to_next_phase(game, draws))
    /\ (phase \in BettingPhases /\ ~betting_round_complete)
       => Credited(game, Attempt("fold", 0).g)
    /\ (phase = "turn" /\ betting_round_complete)
       => Credited(game, show_cards(game))
    /\ phase \in {"waiting", "ended"}
       => Credited(game, start_new_hand(game, NoSwapDraws))

\* C38: is_hand_complete() is true in every state of a settled hand (phase
\* ENDED), ended by folds or by a showdown of two or more players, and false
\* while a betting round before the river is open with two or more players
\* who have not folded.
C38_HandCompleteWhenSettled ==
    /\ phase = "ended" => is_hand_complete(game)
    /\ (phase \in {"preflop", "flop", "turn"} /\ ~betting_round_complete
          /\ Cardinality(NonFolded(game)) >= 2)
       => ~is_hand_complete(game)

\* C39: in every state of the phases PREFLOP, FLOP, TURN and RIVER a player
\* with status ACTIVE has chips, a player with status ALL_IN has none, and
\* the round-bet of every player lies between 0 and the table bet and is at
\* most the bet of the hand.
C39_StatusStackConsistency ==
    phase \in BettingPhases
    => \A i \in Seats :
          /\ players[i].status = "active" => players[i].chips > 0
          /\ players[i].status = "all_in" => players[i].chips = 0
          /\ 0 <= players[i].current_bet
          /\ players[i].current_bet <= current_bet
          /\ players[i].current_bet <= players[i].total_bet

\* C39 witness: in a betting phase one player is ALL_IN without chips and an
\* ACTIVE player with chips has a round-bet above 0, below the table bet
\* and below the bet of the hand.
C39_Witness ==
    /\ phase \in BettingPhases
    /\ \E i \in Seats : players[i].status = "all_in" /\ players[i].chips = 0
    /\ \E k \in Seats :
          /\ players[k].status = "active"
          /\ players[k].chips > 0
          /\ 0 < players[k].current_bet
          /\ players[k].current_bet < current_bet
          /\ players[k].current_bet < players[k].total_bet

====
